---- MODULE Spec2Model ----
(***************************************************************************)
(* A model of include/units.h: std::ratio arithmetic as the header uses    *)
(* it, unit types (tags), the unit manipulators, the conversion function   *)
(* with its tag dispatch, the unit_t container and its operators.          *)
(*                                                                         *)
(* Types are compile-time objects in the header.  A std::ratio<N, D> is    *)
(* modelled by the pair <<N, D>> as written (this is its type identity,    *)
(* which std::is_same looks at) and its members num and den by the reduced *)
(* values the standard prescribes.  A value of the underlying type double  *)
(* is modelled in exact arithmetic: a finite sum of terms                  *)
(* c * PI^p * 10^d with c, p, d rational.                                  *)
(***************************************************************************)
EXTENDS Integers, Sequences, FiniteSets, TLC

VARIABLES A, B, ret, constants

vars == <<A, B, ret, constants>>

----------------------------------------------------------------------------
(* Integer helpers *)

Abs(x) == IF x < 0 THEN -x ELSE x

Sgn(x) == IF x < 0 THEN -1 ELSE IF x > 0 THEN 1 ELSE 0

RECURSIVE Gcd(_, _)
Gcd(a, b) == IF b = 0 THEN a ELSE Gcd(b, a % b)

RECURSIVE IPow(_, _)
IPow(b, n) == IF n = 0 THEN 1 ELSE b * IPow(b, n - 1)

\* floor(n / d) for d > 0
Floor(n, d) == n \div d

----------------------------------------------------------------------------
(* std::ratio<N, D>.  The pair <<N, D>> is the type; num and den are the   *)
(* reduced members (sign carried by num, den > 0).  D = 0 is ill-formed.   *)

ratio(N, D) == <<N, D>>

is_ratio(r) == r[2] # 0

num(r) == Sgn(r[1]) * Sgn(r[2]) * (Abs(r[1]) \div Gcd(Abs(r[1]), Abs(r[2])))

den(r) == Abs(r[2]) \div Gcd(Abs(r[1]), Abs(r[2]))

\* the type std::ratio<num, den> that every std::ratio_xxx alias names
reduced(n, d) ==
    LET g == Gcd(Abs(n), Abs(d))
    IN  ratio(Sgn(n) * Sgn(d) * (Abs(n) \div g), Abs(d) \div g)

\* the products are taken after cancelling the common factors across the
\* two ratios, so that a representable result never overflows on the way
ratio_multiply(r1, r2) ==
    LET n1 == num(r1)
        d1 == den(r1)
        n2 == num(r2)
        d2 == den(r2)
        g1 == Gcd(Abs(n1), d2)
        g2 == Gcd(Abs(n2), d1)
    IN  ratio((n1 \div g1) * (n2 \div g2), (d1 \div g2) * (d2 \div g1))

\* ill-formed (static_assert "division by 0") when num(r2) = 0
ratio_divide_ok(r1, r2) == num(r2) # 0

ratio_divide(r1, r2) == ratio_multiply(r1, ratio(den(r2), num(r2)))

ratio_add(r1, r2) ==
    LET n1 == num(r1)
        d1 == den(r1)
        n2 == num(r2)
        d2 == den(r2)
        g == Gcd(d1, d2)
    IN  reduced(n1 * (d2 \div g) + n2 * (d1 \div g), d1 * (d2 \div g))

ratio_subtract(r1, r2) == ratio_add(r1, ratio(-num(r2), den(r2)))

\* value equality of two ratios (std::ratio_equal), as opposed to type identity
ratio_equal(r1, r2) == num(r1) = num(r2) /\ den(r1) = den(r2)

R0 == ratio(0, 1)

R1 == ratio(1, 1)

----------------------------------------------------------------------------
(* base_unit<Meter, Kilogram, Second, Radian, Ampere, Kelvin, Mole,        *)
(* Candela>: an 8-tuple of ratio types.                                    *)

base_unit(m, kg, s, rad, a, k, mol, cd) == <<m, kg, s, rad, a, k, mol, cd>>

scalar_unit == base_unit(R0, R0, R0, R0, R0, R0, R0, R0)

length_unit == base_unit(R1, R0, R0, R0, R0, R0, R0, R0)

time_unit == base_unit(R0, R0, R1, R0, R0, R0, R0, R0)

angle_unit == base_unit(R0, R0, R0, R1, R0, R0, R0, R0)

temperature_unit == base_unit(R0, R0, R0, R0, R0, R1, R0, R0)

power_unit == base_unit(ratio(2, 1), R1, ratio(-3, 1), R0, R0, R0, R0, R0)

velocity_unit == base_unit(R1, R0, ratio(-1, 1), R0, R0, R0, R0, R0)

base_unit_multiply(b1, b2) == [i \in 1..8 |-> ratio_add(b1[i], b2[i])]

base_unit_divide(b1, b2) == [i \in 1..8 |-> ratio_subtract(b1[i], b2[i])]

inverse_base(b) == [i \in 1..8 |-> ratio_multiply(b[i], ratio(-1, 1))]

squared_base(b) == [i \in 1..8 |-> ratio_multiply(b[i], ratio(2, 1))]

cubed_base(b) == [i \in 1..8 |-> ratio_multiply(b[i], ratio(3, 1))]

----------------------------------------------------------------------------
(* unit<Conversion, BaseUnit, PiExponent, Translation>.                    *)
(* A unit type is a record of its template arguments, which are its type   *)
(* identity (std::is_same), and of its member typedefs, which the          *)
(* arguments determine.  The arguments are kept as the base_unit at the    *)
(* root of the BaseUnit chain (base_unit_type) and the <<Conversion,       *)
(* PiExponent, Translation>> of each unit<> around it, innermost first     *)
(* (args).  BaseUnit is a base_unit (first operator, the partial           *)
(* specialization) or another unit type (second operator).                 *)

\* unit<Conversion, base_unit<Exponents...>, PiExponent, Translation>
unit_of_base(Conversion, BaseUnit, PiExponent, Translation) ==
    [args |-> << <<Conversion, PiExponent, Translation>> >>,
     base_unit_type |-> BaseUnit,
     conversion_ratio |-> Conversion,
     pi_exponent_ratio |-> PiExponent,
     translation_ratio |-> Translation]

\* faulty variant of unit: the translation of the BaseUnit is not carried over
unit_base_translation_dropped(Conversion, BaseUnit, PiExponent, Translation) ==
    [args |-> Append(BaseUnit.args, <<Conversion, PiExponent, Translation>>),
     base_unit_type |-> BaseUnit.base_unit_type,
     conversion_ratio |-> ratio_multiply(BaseUnit.conversion_ratio, Conversion),
     pi_exponent_ratio |-> ratio_add(BaseUnit.pi_exponent_ratio, PiExponent),
     translation_ratio |-> ratio_multiply(BaseUnit.conversion_ratio, Translation)]

\* faulty variant of unit: the conversion ratio of the BaseUnit is not
\* multiplied in
unit_ratio_local(Conversion, BaseUnit, PiExponent, Translation) ==
    [args |-> Append(BaseUnit.args, <<Conversion, PiExponent, Translation>>),
     base_unit_type |-> BaseUnit.base_unit_type,
     conversion_ratio |-> reduced(Conversion[1], Conversion[2]),
     pi_exponent_ratio |-> ratio_add(BaseUnit.pi_exponent_ratio, PiExponent),
     translation_ratio |->
         ratio_add(ratio_multiply(BaseUnit.conversion_ratio, Translation),
                   BaseUnit.translation_ratio)]

\* unit<Conversion, BaseUnit, PiExponent, Translation>, BaseUnit a unit type
unit(Conversion, BaseUnit, PiExponent, Translation) ==
    [args |-> Append(BaseUnit.args, <<Conversion, PiExponent, Translation>>),
     base_unit_type |-> BaseUnit.base_unit_type,
     conversion_ratio |-> ratio_multiply(BaseUnit.conversion_ratio, Conversion),
     pi_exponent_ratio |-> ratio_add(BaseUnit.pi_exponent_ratio, PiExponent),
     translation_ratio |->
         ratio_add(ratio_multiply(BaseUnit.conversion_ratio, Translation),
                   BaseUnit.translation_ratio)]

base_unit_of(U) == U.base_unit_type

conversion_ratio(U) == U.conversion_ratio

pi_exponent_ratio(U) == U.pi_exponent_ratio

translation_ratio(U) == U.translation_ratio

----------------------------------------------------------------------------
(* Unit manipulators *)

\* faulty variant of unit_multiply: the translation of U1 is kept
unit_multiply_translation_kept(U1, U2) ==
    unit_of_base(ratio_multiply(conversion_ratio(U1), conversion_ratio(U2)),
                 base_unit_multiply(base_unit_of(U1), base_unit_of(U2)),
                 ratio_add(pi_exponent_ratio(U1), pi_exponent_ratio(U2)),
                 translation_ratio(U1))

\* faulty variant of unit_multiply: the pi exponents are subtracted
unit_multiply_pi_subtracted(U1, U2) ==
    unit_of_base(ratio_multiply(conversion_ratio(U1), conversion_ratio(U2)),
                 base_unit_multiply(base_unit_of(U1), base_unit_of(U2)),
                 ratio_subtract(pi_exponent_ratio(U1), pi_exponent_ratio(U2)),
                 R0)

unit_multiply(U1, U2) ==
    unit_of_base(ratio_multiply(conversion_ratio(U1), conversion_ratio(U2)),
                 base_unit_multiply(base_unit_of(U1), base_unit_of(U2)),
                 ratio_add(pi_exponent_ratio(U1), pi_exponent_ratio(U2)),
                 R0)

unit_divide_ok(U1, U2) == ratio_divide_ok(conversion_ratio(U1), conversion_ratio(U2))

\* faulty variant of unit_divide: the pi exponents are added
unit_divide_pi_added(U1, U2) ==
    unit_of_base(ratio_divide(conversion_ratio(U1), conversion_ratio(U2)),
                 base_unit_divide(base_unit_of(U1), base_unit_of(U2)),
                 ratio_add(pi_exponent_ratio(U1), pi_exponent_ratio(U2)),
                 R0)

unit_divide(U1, U2) ==
    unit_of_base(ratio_divide(conversion_ratio(U1), conversion_ratio(U2)),
                 base_unit_divide(base_unit_of(U1), base_unit_of(U2)),
                 ratio_subtract(pi_exponent_ratio(U1), pi_exponent_ratio(U2)),
                 R0)

\* std::ratio<den, num> is ill-formed when num = 0
inverse_ok(U) == num(conversion_ratio(U)) # 0

\* faulty variant of inverse: the conversion ratio is not inverted
inverse_ratio_kept(U) ==
    unit_of_base(conversion_ratio(U),
                 inverse_base(base_unit_of(U)),
                 ratio_multiply(pi_exponent_ratio(U), ratio(-1, 1)),
                 R0)

inverse(U) ==
    unit_of_base(ratio(den(conversion_ratio(U)), num(conversion_ratio(U))),
                 inverse_base(base_unit_of(U)),
                 ratio_multiply(pi_exponent_ratio(U), ratio(-1, 1)),
                 R0)

\* faulty variant of squared: the conversion ratio is doubled, not squared
squared_ratio_doubled(U) ==
    unit_of_base(ratio_multiply(conversion_ratio(U), ratio(2, 1)),
                 squared_base(base_unit_of(U)),
                 ratio_multiply(pi_exponent_ratio(U), ratio(2, 1)),
                 R0)

squared(U) ==
    unit_of_base(ratio_multiply(conversion_ratio(U), conversion_ratio(U)),
                 squared_base(base_unit_of(U)),
                 ratio_multiply(pi_exponent_ratio(U), ratio(2, 1)),
                 R0)

cubed(U) ==
    unit_of_base(ratio_multiply(conversion_ratio(U),
                                ratio_multiply(conversion_ratio(U), conversion_ratio(U))),
                 cubed_base(base_unit_of(U)),
                 ratio_multiply(pi_exponent_ratio(U), ratio(3, 1)),
                 R0)

\* faulty variant of compound_unit: a single argument is multiplied into a
\* new unit as well
RECURSIVE compound_unit_single_multiplied(_)
compound_unit_single_multiplied(Us) ==
    IF Len(Us) = 1
    THEN unit_of_base(conversion_ratio(Us[1]), base_unit_of(Us[1]),
                      pi_exponent_ratio(Us[1]), R0)
    ELSE compound_unit_single_multiplied(
             <<unit_multiply(Us[1], Us[2])>> \o SubSeq(Us, 3, Len(Us)))

\* compound_unit<U1, U2, ...>: the argument list as a non-empty sequence
RECURSIVE compound_unit(_)
compound_unit(Us) ==
    IF Len(Us) = 1 THEN Us[1]
    ELSE compound_unit(<<unit_multiply(Us[1], Us[2])>> \o SubSeq(Us, 3, Len(Us)))

is_convertible_unit(U1, U2) == base_unit_of(U1) = base_unit_of(U2)

----------------------------------------------------------------------------
(* Values of the underlying type (double), in exact arithmetic.            *)
(* A value is a set of terms [c, p, d] standing for c * PI^p * 10^d, with  *)
(* c a nonzero reduced ratio, p a reduced ratio, d a reduced ratio in      *)
(* [0, 1), and at most one term for each (p, d).  The empty set is 0.      *)
(* PI is transcendental and the powers 10^d of one denominator are         *)
(* linearly independent over the rationals, so two values are equal        *)
(* numbers iff they are equal sets.                                        *)

VZero == {}

VRat(r) == IF num(r) = 0 THEN {} ELSE {[c |-> reduced(r[1], r[2]), p |-> R0, d |-> R0]}

VInt(n) == VRat(ratio(n, 1))

\* the result of a division by zero (inf or nan): not a number
NonFinite == {[c |-> R0, p |-> R0, d |-> R0]}

IsRational(v) == v = {} \/ (Cardinality(v) = 1 /\ \A t \in v : t.p = R0 /\ t.d = R0)

\* the ratio a rational value stands for
RatOf(v) == IF v = {} THEN R0 ELSE (CHOOSE t \in v : TRUE).c

IsMonomial(v) == Cardinality(v) = 1 /\ v # NonFinite

Keys(v) == {<<t.p, t.d>> : t \in v}

Coef(v, k) ==
    IF \E t \in v : <<t.p, t.d>> = k
    THEN (CHOOSE t \in v : <<t.p, t.d>> = k).c
    ELSE R0

VAdd(v, w) ==
    {[c |-> ratio_add(Coef(v, k), Coef(w, k)), p |-> k[1], d |-> k[2]] :
        k \in {kk \in Keys(v) \cup Keys(w) : num(ratio_add(Coef(v, kk), Coef(w, kk))) # 0}}

\* v * r for a ratio r
VScale(v, r) ==
    IF num(r) = 0 THEN {}
    ELSE {[c |-> ratio_multiply(t.c, r), p |-> t.p, d |-> t.d] : t \in v}

VNeg(v) == VScale(v, ratio(-1, 1))

VSub(v, w) == VAdd(v, VNeg(w))

\* v * PI^e for a ratio e (std::pow(constants::PI, e))
VMulPi(v, e) == {[c |-> t.c, p |-> ratio_add(t.p, e), d |-> t.d] : t \in v}

\* 10^k for an integer k, as a ratio
TenTo(k) == IF k >= 0 THEN ratio(IPow(10, k), 1) ELSE ratio(1, IPow(10, -k))

\* c * PI^p * 10^e for any ratio e: the integer part of e goes into c
Term(c, p, e) ==
    LET fl == Floor(num(e), den(e))
    IN  [c |-> ratio_multiply(c, TenTo(fl)), p |-> p,
         d |-> ratio_subtract(e, ratio(fl, 1))]

\* v * 10^e for a ratio e (std::pow(10, e))
VMulTen(v, e) == {Term(t.c, t.p, ratio_add(t.d, e)) : t \in v}

\* v * (one term)
VMulTerm(v, t) == VMulTen(VMulPi(VScale(v, t.c), t.p), t.d)

RECURSIVE VMul(_, _)
VMul(v, w) ==
    IF w = {} THEN {}
    ELSE LET t == CHOOSE tt \in w : TRUE
         IN  VAdd(VMulTerm(v, t), VMul(v, w \ {t}))

\* v / w for a one-term or zero w
VDiv(v, w) ==
    IF w = {} THEN NonFinite
    ELSE LET t == CHOOSE tt \in w : TRUE
         IN  VMulTerm(v, Term(ratio(den(t.c), num(t.c)),
                              ratio_multiply(t.p, ratio(-1, 1)),
                              ratio_multiply(t.d, ratio(-1, 1))))

----------------------------------------------------------------------------
(* The conversion function *)

isSame(UnitFrom, UnitTo) == UnitFrom = UnitTo

\* faulty variant of piRequired: only the source unit is looked at
piRequired_from_only(UnitFrom, UnitTo) == ~(pi_exponent_ratio(UnitFrom) = R0)

piRequired(UnitFrom, UnitTo) ==
    ~(pi_exponent_ratio(UnitFrom) = R0 /\ pi_exponent_ratio(UnitTo) = R0)

translationRequired(UnitFrom, UnitTo) ==
    ~(translation_ratio(UnitFrom) = R0 /\ translation_ratio(UnitTo) = R0)

ConvRatio(UnitFrom, UnitTo) ==
    ratio_divide(conversion_ratio(UnitFrom), conversion_ratio(UnitTo))

ConvPiRatio(UnitFrom, UnitTo) ==
    ratio_subtract(pi_exponent_ratio(UnitFrom), pi_exponent_ratio(UnitTo))

ConvTranslation(UnitFrom, UnitTo) ==
    ratio_divide(ratio_subtract(translation_ratio(UnitFrom), translation_ratio(UnitTo)),
                 conversion_ratio(UnitTo))

\* faulty variant of _convert: the overloads for identical units rescale
_convert_same_scaled(value, UnitFrom, UnitTo, same, pi, tr) ==
    IF same THEN VScale(value, conversion_ratio(UnitFrom))
    ELSE IF ~pi /\ ~tr THEN
        VScale(value, ConvRatio(UnitFrom, UnitTo))
    ELSE IF pi /\ ~tr THEN
        VMulPi(VScale(value, ConvRatio(UnitFrom, UnitTo)), ConvPiRatio(UnitFrom, UnitTo))
    ELSE IF ~pi /\ tr THEN
        VAdd(VScale(value, ConvRatio(UnitFrom, UnitTo)),
             VRat(ConvTranslation(UnitFrom, UnitTo)))
    ELSE
        VAdd(VMulPi(VScale(value, ConvRatio(UnitFrom, UnitTo)), ConvPiRatio(UnitFrom, UnitTo)),
             VRat(ConvTranslation(UnitFrom, UnitTo)))

\* the eight _convert overloads, selected by the three tags
_convert(value, UnitFrom, UnitTo, same, pi, tr) ==
    IF same THEN value
    ELSE IF ~pi /\ ~tr THEN
        VScale(value, ConvRatio(UnitFrom, UnitTo))
    ELSE IF pi /\ ~tr THEN
        VMulPi(VScale(value, ConvRatio(UnitFrom, UnitTo)), ConvPiRatio(UnitFrom, UnitTo))
    ELSE IF ~pi /\ tr THEN
        VAdd(VScale(value, ConvRatio(UnitFrom, UnitTo)),
             VRat(ConvTranslation(UnitFrom, UnitTo)))
    ELSE
        VAdd(VMulPi(VScale(value, ConvRatio(UnitFrom, UnitTo)), ConvPiRatio(UnitFrom, UnitTo)),
             VRat(ConvTranslation(UnitFrom, UnitTo)))

\* convert<UnitFrom, UnitTo> compiles: the static_assert on the base units,
\* and the ratio_divide of the selected overload is well-formed
convert_ok(UnitFrom, UnitTo) ==
    /\ is_convertible_unit(UnitFrom, UnitTo)
    /\ isSame(UnitFrom, UnitTo)
         \/ ratio_divide_ok(conversion_ratio(UnitFrom), conversion_ratio(UnitTo))

convert(value, UnitFrom, UnitTo) ==
    _convert(value, UnitFrom, UnitTo, isSame(UnitFrom, UnitTo),
             piRequired(UnitFrom, UnitTo), translationRequired(UnitFrom, UnitTo))

----------------------------------------------------------------------------
(* Scales.  linear_scale keeps the constructor's argument in m_value;      *)
(* decibel_scale keeps 10^(argument / 10) and operator() gives back        *)
(* 10 * log10(m_value).  The argument is a rational value.                 *)

Scales == {"linear", "decibel"}

linear_scale(value) == value

decibel_scale(value) == VMulTen(VInt(1), ratio_multiply(RatOf(value), ratio(1, 10)))

RECURSIVE IsPowerOfTen(_)
IsPowerOfTen(n) == n = 1 \/ (n > 1 /\ n % 10 = 0 /\ IsPowerOfTen(n \div 10))

RECURSIVE Log10Int(_)
Log10Int(n) == IF n <= 1 THEN 0 ELSE 1 + Log10Int(n \div 10)

\* log10 is exact on the values 10^k * 10^d (k an integer)
Log10Defined(v) ==
    /\ IsMonomial(v)
    /\ \A t \in v : /\ t.p = R0
                    /\ \/ den(t.c) = 1 /\ IsPowerOfTen(num(t.c))
                       \/ num(t.c) = 1 /\ IsPowerOfTen(den(t.c))

Log10(v) ==
    LET t == CHOOSE tt \in v : TRUE
        k == IF den(t.c) = 1 THEN Log10Int(num(t.c)) ELSE -Log10Int(den(t.c))
    IN  ratio_add(ratio(k, 1), t.d)

linear_scale_read(m_value) == m_value

decibel_scale_read(m_value) == VRat(ratio_multiply(ratio(10, 1), Log10(m_value)))

----------------------------------------------------------------------------
(* unit_t<Units, double, NonLinearScale>: the container *)

Quantity(Units, scale, m_value) == [unit_type |-> Units, scale |-> scale, m_value |-> m_value]

\* explicit unit_t(const Args&... args) : nls(args...)
unit_t(Units, scale, value) ==
    Quantity(Units, scale,
             IF scale = "linear" THEN linear_scale(value) ELSE decibel_scale(value))

\* operator()
unit_t_read(q) ==
    IF q.scale = "linear" THEN linear_scale_read(q.m_value) ELSE decibel_scale_read(q.m_value)

is_scalar_unit(Units) == base_unit_of(Units) = scalar_unit

has_linear_scale(Nls) == Nls = "linear"

has_decibel_scale(Nls) == Nls = "decibel"

is_same_scale(Nls1, Nls2) == Nls1 = Nls2

\* unit_t(const unit_t<UnitsRhs, Ty, NlsRhs>& rhs), a new object of type
\* unit_t<Units, double, scale>
converting_constructor_ok(Units, UnitsRhs) == convert_ok(UnitsRhs, Units)

converting_constructor(Units, scale, rhs) ==
    Quantity(Units, scale, convert(rhs.m_value, rhs.unit_type, Units))

\* operator=(const unit_t<UnitsRhs, Ty, NlsRhs>& rhs): *this after the call
assign_ok(Units, UnitsRhs) == convert_ok(UnitsRhs, Units)

\* faulty variant of assign: the stored value is copied without conversion
assign_unconverted(lhs, rhs) == [lhs EXCEPT !.m_value = rhs.m_value]

assign(lhs, rhs) ==
    [lhs EXCEPT !.m_value = convert(rhs.m_value, rhs.unit_type, lhs.unit_type)]

----------------------------------------------------------------------------
(* Order of two values.  "lt", "eq", "gt", or "?" where the exact order of *)
(* the two sums is not decided by the rules below (sign of every term, a   *)
(* term dominating the other, 333/106 < PI < 355/113).                     *)

RLeq(r1, r2) == num(r1) * den(r2) <= num(r2) * den(r1)

\* order of c1 * PI^p1 * 10^d1 and c2 * PI^p2 * 10^d2, c1 and c2 positive,
\* (p1, d1) # (p2, d2)
TermOrder(c1, p1, d1, c2, p2, d2) ==
    IF p1 = p2 THEN
        IF RLeq(c2, c1) /\ RLeq(d2, d1) THEN "gt"
        ELSE IF RLeq(c1, c2) /\ RLeq(d1, d2) THEN "lt"
        ELSE "?"
    ELSE IF d1 = d2 /\ ratio_subtract(p1, p2) = ratio(1, 1) THEN
        \* PI against c2 / c1
        IF RLeq(ratio_divide(c2, c1), ratio(333, 106)) THEN "gt"
        ELSE IF RLeq(ratio(355, 113), ratio_divide(c2, c1)) THEN "lt"
        ELSE "?"
    ELSE IF d1 = d2 /\ ratio_subtract(p2, p1) = ratio(1, 1) THEN
        \* c1 / c2 against PI
        IF RLeq(ratio_divide(c1, c2), ratio(333, 106)) THEN "lt"
        ELSE IF RLeq(ratio(355, 113), ratio_divide(c1, c2)) THEN "gt"
        ELSE "?"
    ELSE "?"

Order(v, w) ==
    LET D == VSub(v, w)
        Pos == {t \in D : num(t.c) > 0}
        Neg == {t \in D : num(t.c) < 0}
    IN  IF D = {} THEN "eq"
        ELSE IF Neg = {} THEN "gt"
        ELSE IF Pos = {} THEN "lt"
        ELSE IF Cardinality(Pos) = 1 /\ Cardinality(Neg) = 1 THEN
            LET tp == CHOOSE t \in Pos : TRUE
                tn == CHOOSE t \in Neg : TRUE
            IN  TermOrder(tp.c, tp.p, tp.d, ratio(-num(tn.c), den(tn.c)), tn.p, tn.d)
        ELSE "?"

VLess(v, w) == Order(v, w) = "lt"

VLessEq(v, w) == Order(v, w) \in {"lt", "eq"}

VGreater(v, w) == Order(v, w) = "gt"

VGreaterEq(v, w) == Order(v, w) \in {"gt", "eq"}

\* a bool taken as a double (1.0 or 0.0)
BoolValue(b) == IF b THEN VInt(1) ELSE VInt(0)

----------------------------------------------------------------------------
(* Comparison operators of unit_t *)

\* operator Ty() (Ty = bool), enabled for scalar units only
operator_Ty_ok(Units) ==
    is_scalar_unit(Units) /\ convert_ok(Units, unit_of_base(ratio(1, 1), scalar_unit, R0, R0))

operator_Ty(q) ==
    convert(q.m_value, q.unit_type, unit_of_base(ratio(1, 1), scalar_unit, R0, R0)) # VZero

\* The ways a raw number (a double) gets into and out of a unit_t: the
\* constructor unit_t(Ty), operator=(Ty) and operator Ty(), each enabled by
\* is_same<base_unit_of<Units>, scalar_unit>; the explicit constructor; the
\* operator() of the scale; and m_value, a public member of the scale, which
\* unit_t inherits publicly
GatedWays == {"unit_t(Ty)", "operator=(Ty)", "operator Ty"}

ExplicitWays == {"explicit unit_t(Args...)", "operator()"}

MemberWays == {"m_value", "m_value ="}

RawWays == GatedWays \cup ExplicitWays \cup MemberWays

raw_number_ok(way, Units) ==
    IF way \in {"unit_t(Ty)", "operator=(Ty)"} THEN is_scalar_unit(Units)
    ELSE IF way = "operator Ty" THEN operator_Ty_ok(Units)
    ELSE TRUE

\* the object after a raw number rhs went in, or the raw number that came out
raw_number(way, q, rhs) ==
    IF way \in {"unit_t(Ty)", "explicit unit_t(Args...)"} THEN unit_t(q.unit_type, q.scale, rhs)
    ELSE IF way \in {"operator=(Ty)", "m_value ="} THEN [q EXCEPT !.m_value = rhs]
    ELSE IF way = "operator Ty"
         THEN convert(q.m_value, q.unit_type, unit_of_base(ratio(1, 1), scalar_unit, R0, R0))
    ELSE IF way = "operator()" THEN unit_t_read(q)
    ELSE q.m_value

\* operator<: return unit_t(m_value < convert(rhs.m_value)), a unit_t<Units,
\* T, NonLinearScale> built from the bool and converted to bool again
operator_less_ok(Units, UnitsRhs) == convert_ok(UnitsRhs, Units) /\ operator_Ty_ok(Units)

operator_less(lhs, rhs) ==
    operator_Ty(unit_t(lhs.unit_type, lhs.scale,
                       BoolValue(VLess(lhs.m_value,
                                       convert(rhs.m_value, rhs.unit_type, lhs.unit_type)))))

comparison_ok(Units, UnitsRhs) == convert_ok(UnitsRhs, Units)

operator_less_equal(lhs, rhs) ==
    VLessEq(lhs.m_value, convert(rhs.m_value, rhs.unit_type, lhs.unit_type))

operator_greater(lhs, rhs) ==
    VGreater(lhs.m_value, convert(rhs.m_value, rhs.unit_type, lhs.unit_type))

operator_greater_equal(lhs, rhs) ==
    VGreaterEq(lhs.m_value, convert(rhs.m_value, rhs.unit_type, lhs.unit_type))

operator_equal(lhs, rhs) ==
    lhs.m_value = convert(rhs.m_value, rhs.unit_type, lhs.unit_type)

operator_not_equal(lhs, rhs) ==
    lhs.m_value # convert(rhs.m_value, rhs.unit_type, lhs.unit_type)

----------------------------------------------------------------------------
(* Arithmetic operators of unit_t.  Each xxx_ok says, from the operand     *)
(* types unit_t<UnitsLhs, double, NlsLhs> and unit_t<UnitsRhs, double,     *)
(* NlsRhs>, that overload resolution finds a function and that its         *)
(* instantiation compiles.                                                 *)

dB_t_is(Units, Nls) ==
    Units = unit_of_base(ratio(1, 1), scalar_unit, R0, R0) /\ Nls = "decibel"

\* operator+: the overload for different scales is a static_assert; the
\* linear overload; the decibel overloads (the two with a dB_t operand are
\* more specialized and are chosen when that operand is exactly a dB_t and
\* the other operand is not a scalar unit)
operator_plus_ok(UnitsLhs, NlsLhs, UnitsRhs, NlsRhs) ==
    /\ is_same_scale(NlsLhs, NlsRhs)
    /\ \/ has_decibel_scale(NlsLhs) /\ dB_t_is(UnitsRhs, NlsRhs) /\ ~is_scalar_unit(UnitsLhs)
       \/ has_decibel_scale(NlsRhs) /\ dB_t_is(UnitsLhs, NlsLhs) /\ ~is_scalar_unit(UnitsRhs)
       \/ convert_ok(UnitsRhs, UnitsLhs)

\* faulty variant of operator+: the decibel overload adds the magnitudes
operator_plus_linear_sum(lhs, rhs) ==
    IF has_linear_scale(lhs.scale) THEN
        Quantity(lhs.unit_type, "linear",
                 VAdd(lhs.m_value, convert(rhs.m_value, rhs.unit_type, lhs.unit_type)))
    ELSE IF dB_t_is(rhs.unit_type, rhs.scale) /\ ~is_scalar_unit(lhs.unit_type) THEN
        Quantity(lhs.unit_type, "decibel", VMul(lhs.m_value, rhs.m_value))
    ELSE IF dB_t_is(lhs.unit_type, lhs.scale) /\ ~is_scalar_unit(rhs.unit_type) THEN
        Quantity(rhs.unit_type, "decibel", VMul(lhs.m_value, rhs.m_value))
    ELSE
        Quantity(compound_unit(<<squared(lhs.unit_type)>>), "decibel",
                 VAdd(lhs.m_value, convert(rhs.m_value, rhs.unit_type, lhs.unit_type)))

\* faulty variant of operator+: the right operand is not converted
operator_plus_unconverted(lhs, rhs) ==
    IF has_linear_scale(lhs.scale) THEN
        Quantity(lhs.unit_type, "linear", VAdd(lhs.m_value, rhs.m_value))
    ELSE IF dB_t_is(rhs.unit_type, rhs.scale) /\ ~is_scalar_unit(lhs.unit_type) THEN
        Quantity(lhs.unit_type, "decibel", VMul(lhs.m_value, rhs.m_value))
    ELSE IF dB_t_is(lhs.unit_type, lhs.scale) /\ ~is_scalar_unit(rhs.unit_type) THEN
        Quantity(rhs.unit_type, "decibel", VMul(lhs.m_value, rhs.m_value))
    ELSE
        Quantity(compound_unit(<<squared(lhs.unit_type)>>), "decibel",
                 VMul(lhs.m_value, rhs.m_value))

operator_plus(lhs, rhs) ==
    IF has_linear_scale(lhs.scale) THEN
        Quantity(lhs.unit_type, "linear",
                 VAdd(lhs.m_value, convert(rhs.m_value, rhs.unit_type, lhs.unit_type)))
    ELSE IF dB_t_is(rhs.unit_type, rhs.scale) /\ ~is_scalar_unit(lhs.unit_type) THEN
        Quantity(lhs.unit_type, "decibel", VMul(lhs.m_value, rhs.m_value))
    ELSE IF dB_t_is(lhs.unit_type, lhs.scale) /\ ~is_scalar_unit(rhs.unit_type) THEN
        Quantity(rhs.unit_type, "decibel", VMul(lhs.m_value, rhs.m_value))
    ELSE
        Quantity(compound_unit(<<squared(lhs.unit_type)>>), "decibel",
                 VMul(lhs.m_value, convert(rhs.m_value, rhs.unit_type, lhs.unit_type)))

\* operator- for two linear-scale operands
operator_minus_ok(UnitsLhs, NlsLhs, UnitsRhs, NlsRhs) ==
    has_linear_scale(NlsLhs) /\ has_linear_scale(NlsRhs) /\ convert_ok(UnitsRhs, UnitsLhs)

\* faulty variant of operator-: the right operand is not converted
operator_minus_unconverted(lhs, rhs) ==
    Quantity(lhs.unit_type, "linear", VSub(lhs.m_value, rhs.m_value))

operator_minus(lhs, rhs) ==
    Quantity(lhs.unit_type, "linear",
             VSub(lhs.m_value, convert(rhs.m_value, rhs.unit_type, lhs.unit_type)))

\* operator- for two decibel-scale operands: the overload for a dB_t on the
\* right and a non-scalar unit on the left, the one for a dB_t on the left
\* (its body names unit_t<inverse<RhsUnits>, void, decibel_scale>), and the
\* general one, which converts the right operand
operator_minus_decibel_ok(UnitsLhs, NlsLhs, UnitsRhs, NlsRhs) ==
    /\ has_decibel_scale(NlsLhs) /\ has_decibel_scale(NlsRhs)
    /\ IF dB_t_is(UnitsRhs, NlsRhs) /\ ~is_scalar_unit(UnitsLhs) THEN TRUE
       ELSE IF dB_t_is(UnitsLhs, NlsLhs) /\ ~is_scalar_unit(UnitsRhs) THEN FALSE
       ELSE convert_ok(UnitsRhs, UnitsLhs) /\ inverse_ok(UnitsRhs)

\* faulty variant of the decibel operator-: the right operand is not converted
operator_minus_decibel_unconverted(lhs, rhs) ==
    IF dB_t_is(rhs.unit_type, rhs.scale) /\ ~is_scalar_unit(lhs.unit_type) THEN
        Quantity(lhs.unit_type, "decibel", VDiv(lhs.m_value, rhs.m_value))
    ELSE
        Quantity(compound_unit(<<lhs.unit_type, inverse(rhs.unit_type)>>), "decibel",
                 VDiv(lhs.m_value, rhs.m_value))

operator_minus_decibel(lhs, rhs) ==
    IF dB_t_is(rhs.unit_type, rhs.scale) /\ ~is_scalar_unit(lhs.unit_type) THEN
        Quantity(lhs.unit_type, "decibel", VDiv(lhs.m_value, rhs.m_value))
    ELSE
        Quantity(compound_unit(<<lhs.unit_type, inverse(rhs.unit_type)>>), "decibel",
                 VDiv(lhs.m_value, convert(rhs.m_value, rhs.unit_type, lhs.unit_type)))

\* operator/ for two unit_t operands: both linear; convertible units give a
\* scalar_t, the others a unit_t<compound_unit<Lhs, inverse<Rhs>>>
operator_divide_ok(UnitsLhs, NlsLhs, UnitsRhs, NlsRhs) ==
    /\ has_linear_scale(NlsLhs) /\ has_linear_scale(NlsRhs)
    /\ IF is_convertible_unit(UnitsLhs, UnitsRhs)
       THEN convert_ok(UnitsRhs, UnitsLhs)
       ELSE inverse_ok(UnitsRhs)

\* faulty variant of operator/: the right operand is never converted
operator_divide_unconverted(lhs, rhs) ==
    IF is_convertible_unit(lhs.unit_type, rhs.unit_type) THEN
        Quantity(unit_of_base(ratio(1, 1), scalar_unit, R0, R0), "linear",
                 VDiv(lhs.m_value, rhs.m_value))
    ELSE
        Quantity(compound_unit(<<lhs.unit_type, inverse(rhs.unit_type)>>), "linear",
                 VDiv(lhs.m_value, rhs.m_value))

operator_divide(lhs, rhs) ==
    IF is_convertible_unit(lhs.unit_type, rhs.unit_type) THEN
        Quantity(unit_of_base(ratio(1, 1), scalar_unit, R0, R0), "linear",
                 VDiv(lhs.m_value, convert(rhs.m_value, rhs.unit_type, lhs.unit_type)))
    ELSE
        Quantity(compound_unit(<<lhs.unit_type, inverse(rhs.unit_type)>>), "linear",
                 VDiv(lhs.m_value, rhs.m_value))

\* operator* for two unit_t operands: both linear; convertible units give a
\* unit_t<compound_unit<squared<Lhs>>> of lhs.m_value * convert(rhs.m_value),
\* the others a unit_t<compound_unit<Lhs, Rhs>> of lhs.m_value * rhs.m_value
operator_multiply_ok(UnitsLhs, NlsLhs, UnitsRhs, NlsRhs) ==
    /\ has_linear_scale(NlsLhs) /\ has_linear_scale(NlsRhs)
    /\ is_convertible_unit(UnitsLhs, UnitsRhs) => convert_ok(UnitsRhs, UnitsLhs)

\* faulty variant of operator*: the right operand is never converted
operator_multiply_unconverted(lhs, rhs) ==
    IF is_convertible_unit(lhs.unit_type, rhs.unit_type) THEN
        Quantity(compound_unit(<<squared(lhs.unit_type)>>), "linear",
                 VMul(lhs.m_value, rhs.m_value))
    ELSE
        Quantity(compound_unit(<<lhs.unit_type, rhs.unit_type>>), "linear",
                 VMul(lhs.m_value, rhs.m_value))

operator_multiply(lhs, rhs) ==
    IF is_convertible_unit(lhs.unit_type, rhs.unit_type) THEN
        Quantity(compound_unit(<<squared(lhs.unit_type)>>), "linear",
                 VMul(lhs.m_value, convert(rhs.m_value, rhs.unit_type, lhs.unit_type)))
    ELSE
        Quantity(compound_unit(<<lhs.unit_type, rhs.unit_type>>), "linear",
                 VMul(lhs.m_value, rhs.m_value))

\* faulty variant of _power_unit: one multiplication too many
RECURSIVE _power_unit_one_more(_, _)
_power_unit_one_more(N, U) ==
    IF N = 1 THEN unit_multiply(U, U) ELSE unit_multiply(U, _power_unit_one_more(N - 1, U))

\* _power_unit<N, U>::type, N >= 1
RECURSIVE _power_unit(_, _)
_power_unit(N, U) == IF N = 1 THEN U ELSE unit_multiply(U, _power_unit(N - 1, U))

\* std::pow(v, N) for an integer N >= 0
RECURSIVE VPow(_, _)
VPow(v, N) == IF N = 0 THEN VInt(1) ELSE VMul(VPow(v, N - 1), v)

\* pow<power>(value): linear scale only; _power_unit<power, U> has no end of
\* its recursion for power < 1
pow_ok(power, Units, Nls) == has_linear_scale(Nls) /\ power >= 1

pow(power, value) ==
    Quantity(_power_unit(power, value.unit_type), "linear",
             VPow(unit_t_read(value), power))

----------------------------------------------------------------------------
(* The catalog units the model uses, as the header defines them *)

scalar == unit_of_base(ratio(1, 1), scalar_unit, R0, R0)

meters == unit_of_base(ratio(1, 1), length_unit, R0, R0)

feet == unit(ratio(381, 1250), meters, R0, R0)

seconds == unit_of_base(ratio(1, 1), time_unit, R0, R0)

minutes == unit(ratio(60, 1), seconds, R0, R0)

hours == unit(ratio(60, 1), minutes, R0, R0)

days == unit(ratio(24, 1), hours, R0, R0)

weeks == unit(ratio(7, 1), days, R0, R0)

years == unit(ratio(365, 1), days, R0, R0)

radians == unit_of_base(ratio(1, 1), angle_unit, R0, R0)

degrees == unit(ratio(1, 180), radians, ratio(1, 1), R0)

kelvin == unit_of_base(ratio(1, 1), temperature_unit, R0, R0)

celsius == unit(ratio(1, 1), kelvin, ratio(0, 1), ratio(27315, 100))

fahrenheit == unit(ratio(5, 9), celsius, ratio(0, 1), ratio(-160, 9))

meters_per_second == compound_unit(<<meters, inverse(seconds)>>)

Catalog ==
    {scalar, meters, feet, seconds, weeks, years, radians, degrees,
     kelvin, celsius, fahrenheit}

----------------------------------------------------------------------------
(* Input sets and bounds *)

\* unit<> definitions a program adds on top of the catalog: the template
\* arguments <<Conversion, PiExponent, Translation>> and the BaseUnit
UserArgs ==
    {<<ratio(1, 1), ratio(0, 1), ratio(0, 1)>>,
     <<ratio(2, 4), ratio(0, 1), ratio(0, 1)>>,
     <<ratio(1, 1), ratio(1, 1), ratio(0, 1)>>,
     <<ratio(1, 1), ratio(0, 1), ratio(1, 1)>>,
     <<ratio(2, 4), ratio(1, 1), ratio(1, 1)>>}

\* the static_asserts of unit<>: every argument is a std::ratio
unit_ok(Conversion, PiExponent, Translation) ==
    is_ratio(Conversion) /\ is_ratio(PiExponent) /\ is_ratio(Translation)

\* template arguments with a denominator of 0
MalformedArgs ==
    {<<ratio(1, 0), ratio(0, 1), ratio(0, 1)>>,
     <<ratio(1, 1), ratio(1, 0), ratio(0, 1)>>,
     <<ratio(1, 1), ratio(0, 1), ratio(1, 0)>>}

UserBase == {radians, celsius}

UserUnits == {unit(a[1], U, a[2], a[3]) : a \in UserArgs, U \in UserBase}

UnitPool == Catalog \cup UserUnits

\* arguments of convert<From, To>(value)
ConvertValues == {VInt(n) : n \in {0, 2, 32, 100, 212}}

\* constructor arguments of the quantities: 0 .. MaxQ (a dB figure for the
\* decibel scale)
MaxQ == 2

QValues == {VInt(n) : n \in 0..MaxQ}

\* the left operand of a division also takes the README's 100
DividendValues == QValues \cup {VInt(100)}

\* the model's integers are bounded: a conversion is applied only where the
\* scaled numerators and denominators stay at most MaxMagnitude
MaxMagnitude == 1000000

\* largest numerator and denominator of the conversion ratio of a unit that
\* quantities are made of
MaxUnitRatio == 2000

\* template argument of pow<N>: -MaxPow .. MaxPow
MaxPow == 3

FitsProduct(r1, r2) ==
    /\ num(r2) # 0 => Abs(num(r1)) <= MaxMagnitude \div Abs(num(r2))
    /\ den(r1) <= MaxMagnitude \div den(r2)

FitsScale(v, r) == \A t \in v : FitsProduct(t.c, r)

InRange(value, UnitFrom, UnitTo) ==
    (convert_ok(UnitFrom, UnitTo) /\ ~isSame(UnitFrom, UnitTo))
        => FitsScale(value, ConvRatio(UnitFrom, UnitTo))

----------------------------------------------------------------------------
(* namespace constants: static const objects, one copy in every translation *)
(* unit that includes the header, initialised in the order of the table     *)

ConstantNames ==
    {"pi", "c", "G", "h", "mu0", "epsilon0", "Z0", "k_e", "e", "m_e", "m_p", "mu_B",
     "N_A", "R", "k_B", "F", "sigma"}

\* faulty variant of ConstantsTable: k_B is defined ahead of R and N_A
ConstantsTable_k_B_early ==
    <<"pi", "c", "G", "h", "mu0", "epsilon0", "Z0", "k_e", "e", "m_e", "m_p", "mu_B",
      "k_B", "N_A", "R", "F", "sigma">>

\* the definitions in the order of the header
ConstantsTable ==
    <<"pi", "c", "G", "h", "mu0", "epsilon0", "Z0", "k_e", "e", "m_e", "m_p", "mu_B",
      "N_A", "R", "k_B", "F", "sigma">>

\* the constants the initializer of a constant names
Reads(name) ==
    CASE name = "epsilon0" -> {"mu0", "c"}
      [] name = "Z0" -> {"mu0", "c"}
      [] name = "k_e" -> {"pi", "epsilon0"}
      [] name = "mu_B" -> {"e", "h", "pi", "m_e"}
      [] name = "k_B" -> {"R", "N_A"}
      [] name = "F" -> {"N_A", "e"}
      [] name = "sigma" -> {"pi", "R", "h", "c", "N_A"}
      [] OTHER -> {}

\* translation units of the program that include the header
NumTU == 2

TranslationUnits == 1..NumTU

\* before dynamic initialisation every object is zero-initialised
ZeroInitialized == [tu \in TranslationUnits |-> [n \in ConstantNames |-> "zero"]]

\* the table once main() runs
Initialized == [tu \in TranslationUnits |-> [n \in ConstantNames |-> "initialized"]]

\* the constructor call of a definition: the initializer is evaluated on what
\* the objects it names hold at that time
initializer(name, objects) ==
    IF \A r \in Reads(name) : objects[r] = "initialized"
    THEN "initialized"
    ELSE "from zero"

\* index of the next definition of a translation unit, 0 when all are done
next_definition(objects) ==
    IF \A i \in 1..Len(ConstantsTable) : objects[ConstantsTable[i]] # "zero" THEN 0
    ELSE CHOOSE i \in 1..Len(ConstantsTable) :
            /\ objects[ConstantsTable[i]] = "zero"
            /\ \A k \in 1..(i - 1) : objects[ConstantsTable[k]] # "zero"

----------------------------------------------------------------------------
(* State: A and B are the two unit types of the program's statement, ret   *)
(* what the statement returned (ok = FALSE: the statement does not         *)
(* compile).  The functions are pure: a behaviour runs one statement on    *)
(* the two types, and convert<B, A> on the result of convert<A, B>.        *)

Ret(op, ok, sl, sr, x, y, out, aux) ==
    [op |-> op, ok |-> ok, sl |-> sl, sr |-> sr, x |-> x, y |-> y, out |-> out, aux |-> aux]

NoRet == Ret("none", TRUE, "none", "none", VZero, VZero, VZero, VZero)

Rejected(op, sl, sr) == Ret(op, FALSE, sl, sr, VZero, VZero, VZero, VZero)

Init ==
    /\ A \in UnitPool
    /\ B \in UnitPool
    /\ ret = NoRet
    /\ constants = Initialized

\* convert<A, B>(value)
Convert ==
    /\ ret = NoRet
    /\ IF convert_ok(A, B)
       THEN \E value \in ConvertValues :
               /\ InRange(value, A, B)
               /\ ret' = Ret("convert", TRUE, "none", "none", value, VZero,
                             convert(value, A, B), VZero)
       ELSE ret' = Rejected("convert", "none", "none")
    /\ UNCHANGED <<A, B, constants>>

\* convert<B, A>(convert<A, B>(value)), on the value the convert returned
ConvertBack ==
    /\ ret.op = "convert" /\ ret.ok
    /\ InRange(ret.out, B, A)
    /\ ret' = IF convert_ok(B, A)
              THEN Ret("roundtrip", TRUE, "none", "none", ret.x, VZero,
                       convert(ret.out, B, A), ret.out)
              ELSE Rejected("roundtrip", "none", "none")
    /\ UNCHANGED <<A, B, constants>>

\* convert<B, C>(convert<A, B>(value)) next to convert<A, C>(value); y
\* reports the unit C
ConvertVia ==
    /\ ret = NoRet
    /\ \E C \in UnitPool :
          IF convert_ok(A, B) /\ convert_ok(B, C) /\ convert_ok(A, C)
          THEN \E value \in ConvertValues :
                  /\ InRange(value, A, B)
                  /\ InRange(value, A, C)
                  /\ InRange(convert(value, A, B), B, C)
                  /\ ret' = Ret("via", TRUE, "none", "none", value, C,
                                convert(convert(value, A, B), B, C), convert(value, A, C))
          ELSE ret' = Ret("via", FALSE, "none", "none", VZero, C, VZero, VZero)
    /\ UNCHANGED <<A, B, constants>>

(* The statements below work on unit_t<A, double, sl> lhs(x) and           *)
(* unit_t<B, double, sr> rhs(y).  They are tried on units whose conversion *)
(* ratios are small, so that the ratios of the result types (products and  *)
(* squares) stay within the model's integers.                              *)

SmallUnit(U) ==
    Abs(num(conversion_ratio(U))) <= MaxUnitRatio /\ den(conversion_ratio(U)) <= MaxUnitRatio

SmallUnits == SmallUnit(A) /\ SmallUnit(B)

\* unit_t<A, double, sl> lhs(rhs)
CopyConstruct ==
    /\ ret = NoRet
    /\ SmallUnits
    /\ \E sl \in Scales, sr \in Scales :
          IF converting_constructor_ok(A, B)
          THEN \E y \in QValues :
                  LET rhs == unit_t(B, sr, y)
                  IN  ret' = Ret("construct", TRUE, sl, sr, VZero, y,
                                 converting_constructor(A, sl, rhs), rhs)
          ELSE ret' = Rejected("construct", sl, sr)
    /\ UNCHANGED <<A, B, constants>>

\* lhs = rhs
Assign ==
    /\ ret = NoRet
    /\ SmallUnits
    /\ \E sl \in Scales, sr \in Scales :
          IF assign_ok(A, B)
          THEN \E x \in QValues, y \in QValues :
                  LET lhs == unit_t(A, sl, x)
                      rhs == unit_t(B, sr, y)
                  IN  ret' = Ret("assign", TRUE, sl, sr, x, y, assign(lhs, rhs), rhs)
          ELSE ret' = Rejected("assign", sl, sr)
    /\ UNCHANGED <<A, B, constants>>

\* the two values a comparison puts in order are ones Order decides
Ordered(lhs, rhs) ==
    Order(lhs.m_value, convert(rhs.m_value, rhs.unit_type, lhs.unit_type)) # "?"

\* lhs < rhs
Less ==
    /\ ret = NoRet
    /\ SmallUnits
    /\ \E sl \in Scales, sr \in Scales :
          IF operator_less_ok(A, B)
          THEN \E x \in QValues, y \in QValues :
                  LET lhs == unit_t(A, sl, x)
                      rhs == unit_t(B, sr, y)
                  IN  /\ Ordered(lhs, rhs)
                      /\ ret' = Ret("<", TRUE, sl, sr, x, y, operator_less(lhs, rhs), VZero)
          ELSE ret' = Rejected("<", sl, sr)
    /\ UNCHANGED <<A, B, constants>>

\* lhs <= rhs
LessEqual ==
    /\ ret = NoRet
    /\ SmallUnits
    /\ \E sl \in Scales, sr \in Scales :
          IF comparison_ok(A, B)
          THEN \E x \in QValues, y \in QValues :
                  LET lhs == unit_t(A, sl, x)
                      rhs == unit_t(B, sr, y)
                  IN  /\ Ordered(lhs, rhs)
                      /\ ret' = Ret("<=", TRUE, sl, sr, x, y,
                                    operator_less_equal(lhs, rhs), VZero)
          ELSE ret' = Rejected("<=", sl, sr)
    /\ UNCHANGED <<A, B, constants>>

\* lhs > rhs
Greater ==
    /\ ret = NoRet
    /\ SmallUnits
    /\ \E sl \in Scales, sr \in Scales :
          IF comparison_ok(A, B)
          THEN \E x \in QValues, y \in QValues :
                  LET lhs == unit_t(A, sl, x)
                      rhs == unit_t(B, sr, y)
                  IN  /\ Ordered(lhs, rhs)
                      /\ ret' = Ret(">", TRUE, sl, sr, x, y,
                                    operator_greater(lhs, rhs), VZero)
          ELSE ret' = Rejected(">", sl, sr)
    /\ UNCHANGED <<A, B, constants>>

\* lhs >= rhs
GreaterEqual ==
    /\ ret = NoRet
    /\ SmallUnits
    /\ \E sl \in Scales, sr \in Scales :
          IF comparison_ok(A, B)
          THEN \E x \in QValues, y \in QValues :
                  LET lhs == unit_t(A, sl, x)
                      rhs == unit_t(B, sr, y)
                  IN  /\ Ordered(lhs, rhs)
                      /\ ret' = Ret(">=", TRUE, sl, sr, x, y,
                                    operator_greater_equal(lhs, rhs), VZero)
          ELSE ret' = Rejected(">=", sl, sr)
    /\ UNCHANGED <<A, B, constants>>

\* lhs == rhs
Equal ==
    /\ ret = NoRet
    /\ SmallUnits
    /\ \E sl \in Scales, sr \in Scales :
          IF comparison_ok(A, B)
          THEN \E x \in QValues, y \in QValues :
                  LET lhs == unit_t(A, sl, x)
                      rhs == unit_t(B, sr, y)
                  IN  ret' = Ret("==", TRUE, sl, sr, x, y, operator_equal(lhs, rhs), VZero)
          ELSE ret' = Rejected("==", sl, sr)
    /\ UNCHANGED <<A, B, constants>>

\* lhs != rhs
NotEqual ==
    /\ ret = NoRet
    /\ SmallUnits
    /\ \E sl \in Scales, sr \in Scales :
          IF comparison_ok(A, B)
          THEN \E x \in QValues, y \in QValues :
                  LET lhs == unit_t(A, sl, x)
                      rhs == unit_t(B, sr, y)
                  IN  ret' = Ret("!=", TRUE, sl, sr, x, y,
                                 operator_not_equal(lhs, rhs), VZero)
          ELSE ret' = Rejected("!=", sl, sr)
    /\ UNCHANGED <<A, B, constants>>

\* lhs + rhs
Plus ==
    /\ ret = NoRet
    /\ SmallUnits
    /\ \E sl \in Scales, sr \in Scales :
          IF operator_plus_ok(A, sl, B, sr)
          THEN \E x \in QValues, y \in QValues :
                  LET lhs == unit_t(A, sl, x)
                      rhs == unit_t(B, sr, y)
                  IN  ret' = Ret("+", TRUE, sl, sr, x, y, operator_plus(lhs, rhs), VZero)
          ELSE ret' = Rejected("+", sl, sr)
    /\ UNCHANGED <<A, B, constants>>

\* lhs - rhs, both of linear scale
Minus ==
    /\ ret = NoRet
    /\ SmallUnits
    /\ IF operator_minus_ok(A, "linear", B, "linear")
       THEN \E x \in QValues, y \in QValues :
               LET lhs == unit_t(A, "linear", x)
                   rhs == unit_t(B, "linear", y)
               IN  ret' = Ret("-", TRUE, "linear", "linear", x, y,
                              operator_minus(lhs, rhs), VZero)
       ELSE ret' = Rejected("-", "linear", "linear")
    /\ UNCHANGED <<A, B, constants>>

\* the divisor is zero or a single term, which is what VDiv divides by
Divisible(lhs, rhs) ==
    is_convertible_unit(lhs.unit_type, rhs.unit_type)
        => Cardinality(convert(rhs.m_value, rhs.unit_type, lhs.unit_type)) <= 1

\* lhs / rhs
Divide ==
    /\ ret = NoRet
    /\ SmallUnits
    /\ \E sl \in Scales, sr \in Scales :
          IF operator_divide_ok(A, sl, B, sr)
          THEN \E x \in DividendValues, y \in QValues :
                  LET lhs == unit_t(A, sl, x)
                      rhs == unit_t(B, sr, y)
                  IN  /\ Divisible(lhs, rhs)
                      /\ ret' = Ret("/", TRUE, sl, sr, x, y, operator_divide(lhs, rhs), VZero)
          ELSE ret' = Rejected("/", sl, sr)
    /\ UNCHANGED <<A, B, constants>>

\* lhs * rhs
Times ==
    /\ ret = NoRet
    /\ SmallUnits
    /\ \E sl \in Scales, sr \in Scales :
          IF operator_multiply_ok(A, sl, B, sr)
          THEN \E x \in QValues, y \in QValues :
                  LET lhs == unit_t(A, sl, x)
                      rhs == unit_t(B, sr, y)
                  IN  ret' = Ret("*", TRUE, sl, sr, x, y, operator_multiply(lhs, rhs), VZero)
          ELSE ret' = Rejected("*", sl, sr)
    /\ UNCHANGED <<A, B, constants>>

\* the conversion ratio of _power_unit<N, U> stays within the model's integers
RECURSIVE FitsPower(_, _)
FitsPower(r, N) ==
    IF N <= 1 THEN TRUE
    ELSE /\ FitsPower(r, N - 1)
         /\ IPow(Abs(num(r)), N - 1) <= MaxMagnitude \div (Abs(num(r)) + 1)
         /\ IPow(den(r), N - 1) <= MaxMagnitude \div den(r)

\* pow<N>(lhs); y reports N
Pow ==
    /\ ret = NoRet
    /\ \E sl \in Scales, N \in -MaxPow..MaxPow :
          /\ FitsPower(conversion_ratio(A), N)
          /\ IF pow_ok(N, A, sl)
             THEN \E x \in QValues :
                     ret' = Ret("pow", TRUE, sl, "none", x, VInt(N),
                                pow(N, unit_t(A, sl, x)), VZero)
             ELSE ret' = Rejected("pow", sl, VInt(N))
    /\ UNCHANGED <<A, B, constants>>

\* lhs - rhs, both of decibel scale
DecibelMinus ==
    /\ ret = NoRet
    /\ SmallUnits
    /\ IF operator_minus_decibel_ok(A, "decibel", B, "decibel")
       THEN \E x \in QValues, y \in QValues :
               LET lhs == unit_t(A, "decibel", x)
                   rhs == unit_t(B, "decibel", y)
               IN  /\ Divisible(lhs, rhs)
                   /\ ret' = Ret("dB-", TRUE, "decibel", "decibel", x, y,
                                 operator_minus_decibel(lhs, rhs), VZero)
       ELSE ret' = Rejected("dB-", "decibel", "decibel")
    /\ UNCHANGED <<A, B, constants>>

\* a raw number y into or out of lhs by one of the ways; sr reports the way
RawNumber ==
    /\ ret = NoRet
    /\ A = B
    /\ \E sl \in Scales, way \in RawWays :
          IF raw_number_ok(way, A)
          THEN \E x \in QValues, y \in QValues :
                  ret' = Ret("raw", TRUE, sl, way, x, y,
                             raw_number(way, unit_t(A, sl, x), y), VZero)
          ELSE ret' = Rejected("raw", sl, way)
    /\ UNCHANGED <<A, B, constants>>

Next ==
    \/ Convert
    \/ ConvertBack
    \/ CopyConstruct
    \/ Assign
    \/ Less
    \/ LessEqual
    \/ Greater
    \/ GreaterEqual
    \/ Equal
    \/ NotEqual
    \/ Plus
    \/ Minus
    \/ Divide
    \/ RawNumber
    \/ ConvertVia

Spec == Init /\ [][Next]_vars

\* the arithmetic operators alone
NextArith ==
    \/ Plus
    \/ Minus
    \/ Times
    \/ Divide
    \/ Pow
    \/ DecibelMinus

SpecArith == Init /\ [][NextArith]_vars

----------------------------------------------------------------------------
(* The unit manipulators alone: one type expression on the unit types A    *)
(* and B, and on a third unit type where the expression takes one.  The    *)
(* pool adds a unit with a negative and a unit with a zero conversion      *)
(* ratio, and a unit of a base_unit whose meter exponent is written        *)
(* std::ratio<2, 2>.  ret.out is the type, ret.y the further argument, ret.aux a      *)
(* second type expression on the same arguments.                           *)

AlgebraPool ==
    UnitPool \cup {unit(ratio(-1, 2), meters, R0, R0), unit(ratio(0, 1), meters, R0, R0),
                   unit_of_base(ratio(1, 1),
                                base_unit(ratio(2, 2), R0, R0, R0, R0, R0, R0, R0), R0, R0)}

\* largest number of arguments of compound_unit<...>
MaxCompound == 3

InitAlgebra ==
    /\ A \in AlgebraPool
    /\ B \in AlgebraPool
    /\ ret = NoRet
    /\ constants = Initialized

\* the conversion ratios of unit_multiply<U1, U2> stay within the model's integers
FitsMultiply(U1, U2) == FitsProduct(conversion_ratio(U1), conversion_ratio(U2))

\* the same for every unit_multiply of compound_unit<Us...>
RECURSIVE FitsFold(_)
FitsFold(Us) ==
    IF Len(Us) = 1 THEN TRUE
    ELSE IF FitsMultiply(Us[1], Us[2])
         THEN FitsFold(<<unit_multiply(Us[1], Us[2])>> \o SubSeq(Us, 3, Len(Us)))
         ELSE FALSE

\* unit_multiply<A, B>
UnitMultiply ==
    /\ ret.op = "none"
    /\ FitsMultiply(A, B)
    /\ ret' = Ret("unit_multiply", TRUE, "none", "none", VZero, VZero,
                  unit_multiply(A, B), VZero)
    /\ UNCHANGED <<A, B, constants>>

\* unit_divide<A, B>, and unit_multiply<A, inverse<B>>
UnitDivide ==
    /\ ret.op = "none"
    /\ IF unit_divide_ok(A, B)
       THEN /\ FitsProduct(conversion_ratio(A),
                           ratio(den(conversion_ratio(B)), num(conversion_ratio(B))))
            /\ ret' = Ret("unit_divide", TRUE, "none", "none", VZero, VZero,
                          unit_divide(A, B), unit_multiply(A, inverse(B)))
       ELSE ret' = Rejected("unit_divide", "none", "none")
    /\ UNCHANGED <<A, B, constants>>

\* inverse<A>, and inverse<inverse<A>>
Inverse ==
    /\ ret.op = "none"
    /\ ret' = IF inverse_ok(A)
              THEN Ret("inverse", TRUE, "none", "none", VZero, VZero,
                       inverse(A), inverse(inverse(A)))
              ELSE Rejected("inverse", "none", "none")
    /\ UNCHANGED <<A, B, constants>>

\* unit<Conversion, A, PiExponent, Translation>; y reports the arguments
Derive ==
    /\ ret.op = "none"
    /\ \E a \in UserArgs \cup MalformedArgs :
          ret' = IF unit_ok(a[1], a[2], a[3])
                 THEN Ret("unit", TRUE, "none", "none", VZero, a,
                          unit(a[1], A, a[2], a[3]), VZero)
                 ELSE Ret("unit", FALSE, "none", "none", VZero, a, VZero, VZero)
    /\ UNCHANGED <<A, B, constants>>

\* unit_multiply<unit_multiply<A, B>, C> and unit_multiply<A, unit_multiply<B, C>>
Associate ==
    /\ ret.op = "none"
    /\ \E C \in AlgebraPool :
          /\ FitsFold(<<A, B, C>>)
          /\ FitsFold(<<B, C, A>>)
          /\ ret' = Ret("associate", TRUE, "none", "none", VZero, C,
                        unit_multiply(unit_multiply(A, B), C),
                        unit_multiply(A, unit_multiply(B, C)))
    /\ UNCHANGED <<A, B, constants>>

\* compound_unit<A>, compound_unit<A, B>, compound_unit<A, B, C>,
\* compound_unit<A, B, C, A>, ...; y reports the argument list
Compound ==
    /\ ret.op = "none"
    /\ \E n \in 1..MaxCompound, C \in AlgebraPool :
          LET Us == SubSeq(<<A, B, C, A, B, C>>, 1, n)
          IN  /\ n < 3 => C = A
              /\ FitsFold(Us)
              /\ ret' = Ret("compound_unit", TRUE, "none", "none", VZero, Us,
                            compound_unit(Us), VZero)
    /\ UNCHANGED <<A, B, constants>>

\* squared<A>, and unit_multiply<A, A>
Squared ==
    /\ ret.op = "none"
    /\ FitsMultiply(A, A)
    /\ ret' = Ret("squared", TRUE, "none", "none", VZero, VZero,
                  squared(A), unit_multiply(A, A))
    /\ UNCHANGED <<A, B, constants>>

\* cubed<A>, and unit_multiply<A, unit_multiply<A, A>>
Cubed ==
    /\ ret.op = "none"
    /\ FitsFold(<<A, A, A>>)
    /\ ret' = Ret("cubed", TRUE, "none", "none", VZero, VZero,
                  cubed(A), unit_multiply(A, unit_multiply(A, A)))
    /\ UNCHANGED <<A, B, constants>>

NextAlgebra ==
    \/ UnitMultiply
    \/ UnitDivide
    \/ Inverse
    \/ Derive
    \/ Associate
    \/ Compound
    \/ Squared
    \/ Cubed
    \/ Convert

SpecAlgebra == InitAlgebra /\ [][NextAlgebra]_vars

----------------------------------------------------------------------------
(* Start of a program: the dynamic initialisation of namespace constants in *)
(* each translation unit, in the order of the definitions; the translation  *)
(* units are initialised in no fixed order.  main() then reads a constant.  *)

InitConstants ==
    /\ A = scalar
    /\ B = scalar
    /\ ret = NoRet
    /\ constants = ZeroInitialized

\* the next definition of translation unit tu
InitializeConstant ==
    /\ ret = NoRet
    /\ \E tu \in TranslationUnits :
          LET i == next_definition(constants[tu]) IN
          /\ i # 0
          /\ constants' = [constants EXCEPT ![tu][ConstantsTable[i]] =
                               initializer(ConstantsTable[i], constants[tu])]
    /\ UNCHANGED <<A, B, ret>>

\* a statement of main() reads constant n of translation unit tu; y reports
\* the constant, out what it holds
ReadConstant ==
    /\ ret = NoRet
    /\ \A tu \in TranslationUnits : next_definition(constants[tu]) = 0
    /\ \E tu \in TranslationUnits, n \in ConstantNames :
          ret' = Ret("constant", TRUE, "none", "none", VZero, <<tu, n>>,
                     constants[tu][n], VZero)
    /\ UNCHANGED <<A, B, constants>>

NextConstants ==
    \/ InitializeConstant
    \/ ReadConstant

SpecConstants == InitConstants /\ [][NextConstants]_vars

----------------------------------------------------------------------------
(* Properties.  Lhs and Rhs are the operands lhs(x) and rhs(y) of the      *)
(* statement that ret reports.                                             *)

Lhs == unit_t(A, ret.sl, ret.x)

Rhs == unit_t(B, ret.sr, ret.y)

SameDimension(U1, U2) ==
    \A i \in 1..8 : ratio_equal(base_unit_of(U1)[i], base_unit_of(U2)[i])

PiFree(U) == num(pi_exponent_ratio(U)) = 0

\* C1: convert<U, U>(x) returns x itself, whatever ratio, pi exponent or
\* translation U carries (also when applied to the result of a convert<U, U>).
C1_IdentityConversion ==
    /\ (ret.op = "convert" /\ ret.ok /\ A = B) => ret.out = ret.x
    /\ (ret.op = "roundtrip" /\ ret.ok /\ A = B) => ret.out = ret.aux

\* a unit with a ratio other than 1, a pi exponent and a translation, converted
\* to itself
C1_Witness ==
    /\ ret.op = "convert" /\ ret.ok /\ A = B
    /\ ~ratio_equal(conversion_ratio(A), R1)
    /\ ~PiFree(A)
    /\ num(translation_ratio(A)) # 0
    /\ ret.x = VInt(100) /\ ret.out = VInt(100)

\* C2: for units A and B of equal dimension, pi exponents and translations
\* included, convert<B, A>(convert<A, B>(x)) equals x in exact arithmetic.
C2_RoundTrip == (ret.op = "roundtrip" /\ ret.ok) => ret.out = ret.x

\* value * (From.ratio / To.ratio) * PI^(From.pi - To.pi)
\*     + (From.translation - To.translation) / To.ratio
GeneralFormula(value, From, To) ==
    VAdd(VMulPi(VScale(value, ratio_divide(conversion_ratio(From), conversion_ratio(To))),
                ratio_subtract(pi_exponent_ratio(From), pi_exponent_ratio(To))),
         VRat(ratio_divide(ratio_subtract(translation_ratio(From), translation_ratio(To)),
                           conversion_ratio(To))))

\* C3: for two distinct units of equal dimension, every dispatch branch of
\* convert returns the value of the general formula.
C3_ConversionFormula ==
    /\ (ret.op = "convert" /\ ret.ok /\ A # B) => ret.out = GeneralFormula(ret.x, A, B)
    /\ (ret.op = "roundtrip" /\ ret.ok /\ A # B) => ret.out = GeneralFormula(ret.aux, B, A)

\* the branch with all three: pi exponents and translations both differ
C3_Witness ==
    /\ ret.op = "convert" /\ ret.ok /\ A # B
    /\ ~ratio_equal(conversion_ratio(A), conversion_ratio(B))
    /\ ~ratio_equal(pi_exponent_ratio(A), pi_exponent_ratio(B))
    /\ ~ratio_equal(translation_ratio(A), translation_ratio(B))
    /\ ret.x = VInt(2)
    /\ Cardinality(ret.out) = 2
    /\ ret.out = GeneralFormula(ret.x, A, B)

\* C4: the standalone conversion, the cross-unit construction and assignment,
\* each of the six comparison operators and the linear + and - are accepted
\* if and only if the dimension vectors of the two units are equal.
C4_AcceptedIffSameDimension ==
    (\/ ret.op \in {"convert", "construct", "assign", "<", "<=", ">", ">=", "==", "!="}
     \/ ret.op \in {"+", "-"} /\ ret.sl = "linear" /\ ret.sr = "linear")
        => (ret.ok <=> SameDimension(A, B))

\* C5: convert<celsius, fahrenheit> takes 0 to 32 and 100 to 212, and
\* convert<fahrenheit, celsius> takes 32 to 0 and 212 to 100, exactly.
C5_CelsiusFahrenheit ==
    /\ (ret.op = "convert" /\ A = celsius /\ B = fahrenheit) =>
           /\ ret.ok
           /\ ret.x = VInt(0) => ret.out = VInt(32)
           /\ ret.x = VInt(100) => ret.out = VInt(212)
    /\ (ret.op = "convert" /\ A = fahrenheit /\ B = celsius) =>
           /\ ret.ok
           /\ ret.x = VInt(32) => ret.out = VInt(0)
           /\ ret.x = VInt(212) => ret.out = VInt(100)
    /\ (ret.op = "roundtrip" /\ A = celsius /\ B = fahrenheit) =>
           /\ ret.ok
           /\ ret.aux = VInt(32) => ret.out = VInt(0)
           /\ ret.aux = VInt(212) => ret.out = VInt(100)

C5_Witness ==
    /\ ret.op = "roundtrip" /\ ret.ok /\ A = celsius /\ B = fahrenheit
    /\ ret.x = VInt(100) /\ ret.aux = VInt(212) /\ ret.out = VInt(100)

\* C6: convert<years, weeks>(2) is within 5e-7 of 104.357143, that is
\* between 104.3571425 and 104.3571435.
C6_YearsToWeeks ==
    (ret.op = "convert" /\ ret.ok /\ A = years /\ B = weeks /\ ret.x = VInt(2)) =>
        /\ IsRational(ret.out)
        /\ RLeq(ratio(208714285, 2000000), RatOf(ret.out))
        /\ RLeq(RatOf(ret.out), ratio(208714287, 2000000))

\* C7: for linear quantities of different dimensions, lhs / rhs has the unit
\* unit_divide<A, B> (dimension, ratio and pi exponent of A less, over, less
\* those of B), linear scale and the value x / y, with no conversion;
\* 100 meters / 2 seconds is 50 meters_per_second.
C7_CompoundUnitDeduction ==
    (ret.op = "/" /\ ret.ok /\ ~SameDimension(A, B)) =>
        /\ ret.out.unit_type = unit_divide(A, B)
        /\ \A i \in 1..8 :
              ratio_equal(base_unit_of(ret.out.unit_type)[i],
                          ratio_subtract(base_unit_of(A)[i], base_unit_of(B)[i]))
        /\ ratio_equal(ratio_multiply(conversion_ratio(ret.out.unit_type), conversion_ratio(B)),
                       conversion_ratio(A))
        /\ ratio_equal(ratio_add(pi_exponent_ratio(ret.out.unit_type), pi_exponent_ratio(B)),
                       pi_exponent_ratio(A))
        /\ ret.out.scale = "linear"
        /\ ret.y # VZero => VMul(ret.out.m_value, ret.y) = ret.x
        /\ ret.y = VZero => ret.out.m_value = NonFinite
        /\ (A = meters /\ B = seconds /\ ret.x = VInt(100) /\ ret.y = VInt(2)) =>
               ret.out = Quantity(meters_per_second, "linear", VInt(50))

C7_Witness ==
    /\ ret.op = "/" /\ ret.ok
    /\ A = meters /\ B = seconds /\ ret.x = VInt(100) /\ ret.y = VInt(2)
    /\ ret.out.unit_type = meters_per_second
    /\ ret.out.m_value = VInt(50)

\* 10^(x / 10) for a rational value x
Expand(x) == VMulTen(VInt(1), ratio_multiply(RatOf(x), ratio(1, 10)))

\* C8: for two decibel quantities of the same unit, built from the dB figures
\* x and y, lhs + rhs stores 10^(x/10) * 10^(y/10), which reads back as x + y
\* dB, and not the sum of the two magnitudes; 1 dB + 1 dB reads back as 2 dB.
C8_DecibelCombination ==
    (ret.op = "+" /\ ret.ok /\ ret.sl = "decibel" /\ ret.sr = "decibel" /\ A = B) =>
        /\ Lhs.m_value = Expand(ret.x) /\ Rhs.m_value = Expand(ret.y)
        /\ ret.out.scale = "decibel"
        /\ ret.out.m_value = VMul(Expand(ret.x), Expand(ret.y))
        /\ ret.out.m_value # VAdd(Expand(ret.x), Expand(ret.y))
        /\ unit_t_read(ret.out) = VAdd(ret.x, ret.y)
        /\ (ret.x = VInt(1) /\ ret.y = VInt(1)) =>
               /\ ret.out.m_value = {[c |-> R1, p |-> R0, d |-> ratio(1, 5)]}
               /\ unit_t_read(ret.out) = VInt(2)

C8_Witness ==
    /\ ret.op = "+" /\ ret.ok /\ ret.sl = "decibel" /\ ret.sr = "decibel"
    /\ A = scalar /\ B = scalar
    /\ ret.x = VInt(1) /\ ret.y = VInt(1)
    /\ unit_t_read(ret.out) = VInt(2)

\* C9: constructing or assigning a quantity of unit A from a quantity rhs of
\* unit B of the same dimension stores convert<B, A>(rhs.m_value), so that for
\* pi-free units stored * A.ratio + A.translation equals rhs.m_value * B.ratio
\* + B.translation; rhs is left unchanged.
C9_CrossUnitAssignment ==
    (ret.op \in {"construct", "assign"} /\ ret.ok) =>
        /\ SameDimension(A, B)
        /\ ret.out.unit_type = A /\ ret.out.scale = ret.sl
        /\ A # B => ret.out.m_value = GeneralFormula(Rhs.m_value, B, A)
        /\ A = B => ret.out.m_value = Rhs.m_value
        /\ (PiFree(A) /\ PiFree(B)) =>
               VAdd(VScale(ret.out.m_value, conversion_ratio(A)), VRat(translation_ratio(A)))
                   = VAdd(VScale(Rhs.m_value, conversion_ratio(B)), VRat(translation_ratio(B)))
        /\ ret.aux = Rhs

\* 2 degrees celsius assigned to a fahrenheit quantity: 35.6
C9_Witness ==
    /\ ret.op = "assign" /\ ret.ok
    /\ A = fahrenheit /\ B = celsius /\ ret.sl = "linear" /\ ret.sr = "linear"
    /\ ret.x = VInt(1) /\ ret.y = VInt(2)
    /\ ret.out.m_value = VRat(ratio(178, 5))
    /\ ret.aux.m_value = VInt(2)

\* C10: each of the six comparison operators returns the truth value of
\* lhs.m_value op convert<B, A>(rhs.m_value), for any scale.
C10_Comparison ==
    (ret.op \in {"<", "<=", ">", ">=", "==", "!="} /\ ret.ok) =>
        LET l == Lhs.m_value
            r == convert(Rhs.m_value, B, A)
        IN  ret.out = CASE ret.op = "<" -> VLess(l, r)
                        [] ret.op = "<=" -> VLessEq(l, r)
                        [] ret.op = ">" -> VGreater(l, r)
                        [] ret.op = ">=" -> VGreaterEq(l, r)
                        [] ret.op = "==" -> l = r
                        [] ret.op = "!=" -> l # r

\* the right operand's value in the unit of the left operand
RhsInA == IF A = B THEN Rhs.m_value ELSE GeneralFormula(Rhs.m_value, B, A)

\* C11: for linear quantities of the same dimension, lhs + rhs and lhs - rhs
\* are quantities of the unit of lhs whose value is lhs.m_value plus (minus)
\* the value of rhs converted to the unit of lhs.
C11_LinearAddSub ==
    (ret.op \in {"+", "-"} /\ ret.ok /\ ret.sl = "linear" /\ ret.sr = "linear") =>
        /\ SameDimension(A, B)
        /\ ret.out.unit_type = A /\ ret.out.scale = "linear"
        /\ ret.op = "+" => ret.out.m_value = VAdd(ret.x, RhsInA)
        /\ ret.op = "-" => ret.out.m_value = VSub(ret.x, RhsInA)

\* 2 meters - 1 foot = 2119/1250 meters
C11_Witness ==
    /\ ret.op = "-" /\ ret.ok /\ ret.sl = "linear" /\ ret.sr = "linear"
    /\ A = meters /\ B = feet /\ ret.x = VInt(2) /\ ret.y = VInt(1)
    /\ ret.out = Quantity(meters, "linear", VRat(ratio(2119, 1250)))

\* U is the unit with N times the dimension and pi exponent of V, the N-th
\* power of its ratio and no translation
IsPowerOf(U, V, N) ==
    /\ \A i \in 1..8 : ratio_equal(base_unit_of(U)[i],
                                   ratio_multiply(base_unit_of(V)[i], ratio(N, 1)))
    /\ ratio_equal(conversion_ratio(U),
                   ratio(IPow(num(conversion_ratio(V)), N), IPow(den(conversion_ratio(V)), N)))
    /\ ratio_equal(pi_exponent_ratio(U), ratio_multiply(pi_exponent_ratio(V), ratio(N, 1)))
    /\ num(translation_ratio(U)) = 0

\* U is the unit with the sum of the dimensions and pi exponents of V and W,
\* the product of their ratios and no translation
IsProductOf(U, V, W) ==
    /\ \A i \in 1..8 : ratio_equal(base_unit_of(U)[i],
                                   ratio_add(base_unit_of(V)[i], base_unit_of(W)[i]))
    /\ ratio_equal(conversion_ratio(U),
                   ratio(num(conversion_ratio(V)) * num(conversion_ratio(W)),
                         den(conversion_ratio(V)) * den(conversion_ratio(W))))
    /\ ratio_equal(pi_exponent_ratio(U),
                   ratio_add(pi_exponent_ratio(V), pi_exponent_ratio(W)))
    /\ num(translation_ratio(U)) = 0

\* C12 as stated: for linear quantities, lhs * rhs has the unit squared<A> when
\* A and B are the same unit and unit_multiply<A, B> for any two different
\* units, and in both cases the value x * y with no conversion.
C12_AsStated ==
    (ret.op = "*" /\ ret.ok) =>
        /\ ret.out.m_value = VMul(ret.x, ret.y)
        /\ IF A = B THEN IsPowerOf(ret.out.unit_type, A, 2)
                    ELSE IsProductOf(ret.out.unit_type, A, B)

\* C12 as the code has it: for linear quantities, lhs * rhs has the unit
\* squared<A> and the value x * convert<B, A>(y) when A and B have the same
\* dimension, and the unit unit_multiply<A, B> and the value x * y otherwise.
C12_LinearMultiplication ==
    (ret.op = "*" /\ ret.ok) =>
        /\ ret.sl = "linear" /\ ret.sr = "linear" /\ ret.out.scale = "linear"
        /\ IF SameDimension(A, B)
           THEN /\ IsPowerOf(ret.out.unit_type, A, 2)
                /\ ret.out.m_value = VMul(ret.x, RhsInA)
           ELSE /\ IsProductOf(ret.out.unit_type, A, B)
                /\ ret.out.m_value = VMul(ret.x, ret.y)

\* 2 meters * 1 foot = 381/625 square meters
C12_Witness ==
    /\ ret.op = "*" /\ ret.ok
    /\ A = meters /\ B = feet /\ ret.x = VInt(2) /\ ret.y = VInt(1)
    /\ ret.out = Quantity(squared(meters), "linear", VRat(ratio(381, 625)))

\* C13: for linear quantities of the same dimension, lhs / rhs is a scalar
\* (no dimension, ratio 1, no pi exponent, no translation) of value
\* x / convert<B, A>(y), the ratio of the two physical magnitudes when neither
\* unit has a translation.
C13_SameDimensionDivision ==
    (ret.op = "/" /\ ret.ok /\ SameDimension(A, B)) =>
        /\ ret.out.unit_type = scalar
        /\ \A i \in 1..8 : num(base_unit_of(ret.out.unit_type)[i]) = 0
        /\ ratio_equal(conversion_ratio(ret.out.unit_type), R1)
        /\ num(pi_exponent_ratio(ret.out.unit_type)) = 0
        /\ num(translation_ratio(ret.out.unit_type)) = 0
        /\ ret.out.scale = "linear"
        /\ RhsInA # VZero => VMul(ret.out.m_value, RhsInA) = ret.x
        /\ RhsInA = VZero => ret.out.m_value = NonFinite
        /\ (num(translation_ratio(A)) = 0 /\ num(translation_ratio(B)) = 0 /\ ret.y # VZero) =>
               VMul(ret.out.m_value,
                    VMulPi(VScale(ret.y, conversion_ratio(B)), pi_exponent_ratio(B)))
                   = VMulPi(VScale(ret.x, conversion_ratio(A)), pi_exponent_ratio(A))

\* 100 meters / 2 feet = 62500/381
C13_Witness ==
    /\ ret.op = "/" /\ ret.ok
    /\ A = meters /\ B = feet /\ ret.x = VInt(100) /\ ret.y = VInt(2)
    /\ ret.out = Quantity(scalar, "linear", VRat(ratio(62500, 381)))

\* C14: for a linear quantity of unit A and N >= 1, pow<N> has the value x^N
\* and the unit with N times the dimension and pi exponent of A and the N-th
\* power of its ratio; for N = 1 the unit is A itself.
C14_Pow ==
    (ret.op = "pow" /\ ret.ok) =>
        LET N == num(RatOf(ret.y))
        IN  /\ N >= 1
            /\ ret.sl = "linear" /\ ret.out.scale = "linear"
            /\ ret.out.m_value = VInt(IPow(num(RatOf(ret.x)), N))
            /\ N = 1 => ret.out.unit_type = A
            /\ N > 1 => IsPowerOf(ret.out.unit_type, A, N)
            /\ \A i \in 1..8 : ratio_equal(base_unit_of(ret.out.unit_type)[i],
                                           ratio_multiply(base_unit_of(A)[i], ratio(N, 1)))
            /\ ratio_equal(conversion_ratio(ret.out.unit_type),
                           ratio(IPow(num(conversion_ratio(A)), N),
                                 IPow(den(conversion_ratio(A)), N)))
            /\ ratio_equal(pi_exponent_ratio(ret.out.unit_type),
                           ratio_multiply(pi_exponent_ratio(A), ratio(N, 1)))

\* the cube of a quantity of a unit with ratio 1/2, pi exponent 1 and a translation
C14_Witness ==
    /\ ret.op = "pow" /\ ret.ok /\ ret.y = VInt(3) /\ ret.x = VInt(2)
    /\ A = unit(ratio(2, 4), radians, ratio(1, 1), ratio(1, 1))
    /\ ret.out.m_value = VInt(8)
    /\ conversion_ratio(ret.out.unit_type) = ratio(1, 8)
    /\ pi_exponent_ratio(ret.out.unit_type) = ratio(3, 1)

\* the product n1/d1 * n2/d2 and the quotient (n1/d1) / (n2/d2), n2 # 0, by
\* cross-multiplication
Times2(r1, r2) == ratio(num(r1) * num(r2), den(r1) * den(r2))

Over2(r1, r2) == ratio(num(r1) * den(r2), den(r1) * num(r2))

Negated(r) == ratio(-num(r), den(r))

\* C15: unit_multiply<A, B> has the sum of the dimensions of A and B
\* (elementwise over the 8 exponents), the product of their conversion ratios,
\* the sum of their pi exponents and translation 0, whatever the translations
\* of A and B.
C15_UnitMultiply ==
    ret.op = "unit_multiply" =>
        /\ \A i \in 1..8 : ratio_equal(base_unit_of(ret.out)[i],
                                       ratio_add(base_unit_of(A)[i], base_unit_of(B)[i]))
        /\ ratio_equal(conversion_ratio(ret.out),
                       Times2(conversion_ratio(A), conversion_ratio(B)))
        /\ ratio_equal(pi_exponent_ratio(ret.out),
                       ratio_add(pi_exponent_ratio(A), pi_exponent_ratio(B)))
        /\ ratio_equal(translation_ratio(ret.out), R0)

\* celsius times fahrenheit, both with a translation
C15_Witness ==
    /\ ret.op = "unit_multiply" /\ A = celsius /\ B = fahrenheit
    /\ num(translation_ratio(A)) # 0 /\ num(translation_ratio(B)) # 0
    /\ conversion_ratio(ret.out) = ratio(5, 9)
    /\ base_unit_of(ret.out)[6] = ratio(2, 1)
    /\ translation_ratio(ret.out) = R0

\* C16: unit_divide<A, B> has the difference of the dimensions of A and B, the
\* quotient of their conversion ratios, the difference of their pi exponents
\* and translation 0, and is the same unit as unit_multiply<A, inverse<B>>.
C16_UnitDivide ==
    (ret.op = "unit_divide" /\ ret.ok) =>
        /\ \A i \in 1..8 :
              ratio_equal(base_unit_of(ret.out)[i],
                          ratio_add(base_unit_of(A)[i], Negated(base_unit_of(B)[i])))
        /\ ratio_equal(conversion_ratio(ret.out),
                       Over2(conversion_ratio(A), conversion_ratio(B)))
        /\ ratio_equal(pi_exponent_ratio(ret.out),
                       ratio_add(pi_exponent_ratio(A), Negated(pi_exponent_ratio(B))))
        /\ ratio_equal(translation_ratio(ret.out), R0)
        /\ \A i \in 1..8 : ratio_equal(base_unit_of(ret.out)[i], base_unit_of(ret.aux)[i])
        /\ ratio_equal(conversion_ratio(ret.out), conversion_ratio(ret.aux))
        /\ ratio_equal(pi_exponent_ratio(ret.out), pi_exponent_ratio(ret.aux))
        /\ ratio_equal(translation_ratio(ret.out), translation_ratio(ret.aux))
        /\ ret.out = ret.aux

\* feet over degrees: ratio (381/1250) / (1/180) = 6858/125, pi exponent -1
C16_Witness ==
    /\ ret.op = "unit_divide" /\ ret.ok /\ A = feet /\ B = degrees
    /\ conversion_ratio(ret.out) = ratio(6858, 125)
    /\ pi_exponent_ratio(ret.out) = ratio(-1, 1)
    /\ base_unit_of(ret.out)[1] = ratio(1, 1) /\ base_unit_of(ret.out)[4] = ratio(-1, 1)
    /\ ret.aux = unit_multiply(feet, inverse(degrees))

\* C17: inverse<A> has the negated dimension of A, the conversion ratio with
\* numerator and denominator swapped (the sign on the numerator), the negated
\* pi exponent and translation 0; inverse<inverse<A>> has the dimension, ratio
\* and pi exponent of A.
C17_Inverse ==
    (ret.op = "inverse" /\ ret.ok) =>
        /\ \A i \in 1..8 : ratio_equal(base_unit_of(ret.out)[i], Negated(base_unit_of(A)[i]))
        /\ num(conversion_ratio(ret.out)) = Sgn(num(conversion_ratio(A))) * den(conversion_ratio(A))
        /\ den(conversion_ratio(ret.out)) = Abs(num(conversion_ratio(A)))
        /\ ratio_equal(pi_exponent_ratio(ret.out), Negated(pi_exponent_ratio(A)))
        /\ ratio_equal(translation_ratio(ret.out), R0)
        /\ \A i \in 1..8 : ratio_equal(base_unit_of(ret.aux)[i], base_unit_of(A)[i])
        /\ ratio_equal(conversion_ratio(ret.aux), conversion_ratio(A))
        /\ ratio_equal(pi_exponent_ratio(ret.aux), pi_exponent_ratio(A))

\* the inverse of a unit of ratio -1/2: -2/1
C17_Witness ==
    /\ ret.op = "inverse" /\ ret.ok
    /\ A = unit(ratio(-1, 2), meters, R0, R0)
    /\ num(conversion_ratio(ret.out)) = -2 /\ den(conversion_ratio(ret.out)) = 1
    /\ base_unit_of(ret.out)[1] = ratio(-1, 1)
    /\ ratio_equal(conversion_ratio(ret.aux), ratio(-1, 2))

\* the product of the Conversion arguments along the chain of unit<>
\* definitions of a unit type
RECURSIVE ChainNum(_)
ChainNum(args) ==
    IF args = << >> THEN 1 ELSE num(Head(args)[1]) * ChainNum(Tail(args))

RECURSIVE ChainDen(_)
ChainDen(args) ==
    IF args = << >> THEN 1 ELSE den(Head(args)[1]) * ChainDen(Tail(args))

NoOffsets(args) == \A i \in 1..Len(args) : num(args[i][3]) = 0

\* C18: unit<Conversion, A, PiExponent, Translation> has the dimension of A,
\* the conversion ratio of A times Conversion, the pi exponent of A plus
\* PiExponent and the translation (ratio of A) * Translation + (translation of
\* A); along a chain of definitions without translations the ratio is the
\* product of the Conversion arguments of the chain.
C18_Derive ==
    (ret.op = "unit" /\ ret.ok) =>
        /\ base_unit_of(ret.out) = base_unit_of(A)
        /\ ratio_equal(conversion_ratio(ret.out), Times2(conversion_ratio(A), ret.y[1]))
        /\ ratio_equal(pi_exponent_ratio(ret.out), ratio_add(pi_exponent_ratio(A), ret.y[2]))
        /\ ratio_equal(translation_ratio(ret.out),
                       ratio_add(Times2(conversion_ratio(A), ret.y[3]), translation_ratio(A)))
        /\ NoOffsets(ret.out.args) =>
               ratio_equal(conversion_ratio(ret.out),
                           ratio(ChainNum(ret.out.args), ChainDen(ret.out.args)))
        /\ NoOffsets(A.args) =>
               ratio_equal(conversion_ratio(A), ratio(ChainNum(A.args), ChainDen(A.args)))

\* half a year: years -> days -> hours -> minutes -> seconds, 31536000 / 2
C18_Witness ==
    /\ ret.op = "unit" /\ ret.ok /\ A = years /\ ret.y = <<ratio(2, 4), ratio(0, 1), ratio(0, 1)>>
    /\ Len(ret.out.args) = 6 /\ NoOffsets(ret.out.args)
    /\ num(conversion_ratio(A)) = 31536000
    /\ num(conversion_ratio(ret.out)) = 15768000 /\ den(conversion_ratio(ret.out)) = 1

\* C19: unit_multiply<unit_multiply<A, B>, C> and unit_multiply<A,
\* unit_multiply<B, C>> have the same dimension, conversion ratio, pi exponent
\* and translation.
C19_MultiplyAssociative ==
    ret.op = "associate" =>
        /\ \A i \in 1..8 : ratio_equal(base_unit_of(ret.out)[i], base_unit_of(ret.aux)[i])
        /\ ratio_equal(conversion_ratio(ret.out), conversion_ratio(ret.aux))
        /\ ratio_equal(pi_exponent_ratio(ret.out), pi_exponent_ratio(ret.aux))
        /\ ratio_equal(translation_ratio(ret.out), translation_ratio(ret.aux))

\* (feet * degrees) * (half a radian times pi, translated)
C19_Witness ==
    /\ ret.op = "associate" /\ A = feet /\ B = degrees
    /\ ret.y = unit(ratio(2, 4), radians, ratio(1, 1), ratio(1, 1))
    /\ conversion_ratio(ret.out) = ratio(127, 150000)
    /\ pi_exponent_ratio(ret.out) = ratio(2, 1)
    /\ base_unit_of(ret.out)[4] = ratio(2, 1)

\* unit_multiply applied from the left over a non-empty list of unit types
RECURSIVE LeftFold(_)
LeftFold(Us) ==
    IF Len(Us) = 1 THEN Us[1]
    ELSE unit_multiply(LeftFold(SubSeq(Us, 1, Len(Us) - 1)), Us[Len(Us)])

\* C20: compound_unit<U1, ..., Un> is the left fold of unit_multiply over the
\* list for n >= 2, and U1 itself, translation included, for n = 1.
C20_CompoundLeftFold ==
    ret.op = "compound_unit" =>
        /\ Len(ret.y) = 1 => ret.out = A /\ translation_ratio(ret.out) = translation_ratio(A)
        /\ Len(ret.y) = 2 => ret.out = unit_multiply(A, B)
        /\ Len(ret.y) >= 2 => ret.out = LeftFold(ret.y)

\* compound_unit<meters, degrees, feet>
C20_Witness ==
    /\ ret.op = "compound_unit" /\ ret.y = <<meters, degrees, feet>>
    /\ ret.out = unit_multiply(unit_multiply(meters, degrees), feet)

\* C21: construction from a raw number without the explicit constructor,
\* assignment from a raw number and conversion to a raw number compile exactly
\* for the units whose eight exponents are zero; for every other unit a raw
\* number gets in through the explicit constructor only and out through
\* operator() only.
C21_RawNumberGate ==
    ret.op = "raw" =>
        (ret.ok <=> \/ ret.sr \in ExplicitWays
                    \/ /\ ret.sr \in GatedWays
                       /\ \A i \in 1..8 : num(base_unit_of(A)[i]) = 0)

\* the three conversions alone are enabled exactly for the dimensionless units
C21_GatedWays ==
    (ret.op = "raw" /\ ret.sr \in GatedWays) =>
        (ret.ok <=> \A i \in 1..8 : num(base_unit_of(A)[i]) = 0)

\* a raw number written to and read from the m_value of a meters quantity
C21_MemberAccess ==
    /\ ret.op = "raw" /\ ret.ok /\ A = meters /\ ret.sr = "m_value ="
    /\ ret.out.m_value = ret.y

\* the unit manipulators of the algebra
UnitOps ==
    {"unit", "unit_multiply", "unit_divide", "inverse", "squared", "cubed",
     "associate", "compound_unit"}

\* num and den of a std::ratio: positive denominator, lowest terms, 0 as 0/1
Canonical(r) ==
    /\ den(r) > 0
    /\ Gcd(Abs(num(r)), den(r)) = 1
    /\ num(r) = 0 => den(r) = 1

CanonicalUnit(U) ==
    /\ Canonical(conversion_ratio(U))
    /\ Canonical(pi_exponent_ratio(U))
    /\ Canonical(translation_ratio(U))
    /\ \A i \in 1..8 : Canonical(base_unit_of(U)[i])

\* C22: in the unit a manipulator returns, every ratio (conversion ratio, pi
\* exponent, translation, the eight exponents) has a positive denominator, is
\* in lowest terms and is 0/1 when zero, and such a unit has the same
\* dimension as another unit (the units are convertible) exactly when the
\* eight reduced exponents are the same.
C22_RationalInvariant ==
    (ret.op \in UnitOps /\ ret.ok) =>
        /\ CanonicalUnit(ret.out)
        /\ \A U \in {A, B} : is_convertible_unit(ret.out, U) <=> SameDimension(ret.out, U)

\* the first half alone: num and den of every ratio of the result
C22_NumDen ==
    (ret.op \in UnitOps /\ ret.ok) => CanonicalUnit(ret.out)

\* a unit derived from the unit of base_unit<std::ratio<2, 2>>, next to meters
C22_WrittenExponent ==
    /\ ret.op = "unit" /\ ret.ok /\ B = meters
    /\ base_unit_of(ret.out)[1] = ratio(2, 2)
    /\ SameDimension(ret.out, B) /\ ~is_convertible_unit(ret.out, B)

\* C25: squared<A> and cubed<A> (ratio squared / cubed, exponents and pi
\* exponent times 2 / 3, translation 0) are the same units as
\* unit_multiply<A, A> and unit_multiply<A, unit_multiply<A, A>>.
C25_SquaredCubed ==
    (ret.op \in {"squared", "cubed"}) =>
        LET n == IF ret.op = "squared" THEN 2 ELSE 3
        IN  /\ \A i \in 1..8 : ratio_equal(base_unit_of(ret.out)[i],
                                           Times2(base_unit_of(A)[i], ratio(n, 1)))
            /\ ratio_equal(conversion_ratio(ret.out),
                           ratio(IPow(num(conversion_ratio(A)), n),
                                 IPow(den(conversion_ratio(A)), n)))
            /\ ratio_equal(pi_exponent_ratio(ret.out),
                           Times2(pi_exponent_ratio(A), ratio(n, 1)))
            /\ ratio_equal(translation_ratio(ret.out), R0)
            /\ ret.out = ret.aux

\* the square of fahrenheit: ratio 25/81, temperature exponent 2, translation 0
C25_Witness ==
    /\ ret.op = "squared" /\ A = fahrenheit
    /\ conversion_ratio(ret.out) = ratio(25, 81)
    /\ base_unit_of(ret.out)[6] = ratio(2, 1)
    /\ translation_ratio(ret.out) = R0
    /\ ret.aux = unit_multiply(fahrenheit, fahrenheit)

\* no ratio of the unit has a denominator of 0
NoZeroDenominator(U) ==
    /\ den(conversion_ratio(U)) # 0
    /\ den(pi_exponent_ratio(U)) # 0
    /\ den(translation_ratio(U)) # 0
    /\ \A i \in 1..8 : is_ratio(base_unit_of(U)[i])

C23_BetweenDifferentUnits ==
    /\ (ret.op \in UnitOps /\ ret.ok) => NoZeroDenominator(ret.out)
    /\ (ret.op = "unit" /\ ~unit_ok(ret.y[1], ret.y[2], ret.y[3])) => ~ret.ok
    /\ (ret.op = "inverse" /\ num(conversion_ratio(A)) = 0) => ~ret.ok
    /\ (ret.op = "unit_divide" /\ num(conversion_ratio(B)) = 0) => ~ret.ok
    /\ (ret.op = "convert" /\ num(conversion_ratio(B)) = 0 /\ ~isSame(A, B)) => ~ret.ok

\* convert<Z, Z>(2.0) for Z = unit<std::ratio<0>, meters> returns 2.0
C23_IdentityIntoZeroRatio ==
    /\ ret.op = "convert" /\ ret.ok /\ A = B
    /\ num(conversion_ratio(B)) = 0
    /\ ret.x = VInt(2) /\ ret.out = VInt(2)

\* C24: convert<A, B> on different units selects its overload by "the pi
\* exponents differ" and "the translations differ": with equal pi exponents
\* (zero or not) the overload has no power of pi, with equal translations it
\* adds no term, and units that differ only in the conversion ratio are
\* converted by value * Ratio::num / Ratio::den.
C24_DispatchSelection ==
    (ret.op = "convert" /\ ret.ok /\ ~isSame(A, B)) =>
        /\ piRequired(A, B) <=> ~ratio_equal(pi_exponent_ratio(A), pi_exponent_ratio(B))
        /\ translationRequired(A, B)
               <=> ~ratio_equal(translation_ratio(A), translation_ratio(B))
        /\ ret.out = _convert(ret.x, A, B, FALSE,
                              ~ratio_equal(pi_exponent_ratio(A), pi_exponent_ratio(B)),
                              ~ratio_equal(translation_ratio(A), translation_ratio(B)))

\* the value alone: equal pi exponents give no power of pi in the result,
\* equal translations no added term
C24_ValueOnly ==
    (ret.op = "convert" /\ ret.ok /\ ~isSame(A, B)) =>
        ret.out = _convert(ret.x, A, B, FALSE,
                           ~ratio_equal(pi_exponent_ratio(A), pi_exponent_ratio(B)),
                           ~ratio_equal(translation_ratio(A), translation_ratio(B)))

\* C24 as the code has it: the overload is selected by "a pi exponent is not
\* 0" and "a translation is not 0"; with equal pi exponents the power of pi
\* is pi^0 and with equal translations the added term is 0, so that the
\* returned value is the one of the formula without them.
C24_EitherNonzero ==
    (ret.op = "convert" /\ ret.ok /\ ~isSame(A, B)) =>
        /\ ret.out = _convert(ret.x, A, B, FALSE,
                              pi_exponent_ratio(A) # R0 \/ pi_exponent_ratio(B) # R0,
                              translation_ratio(A) # R0 \/ translation_ratio(B) # R0)
        /\ C24_ValueOnly
        /\ ratio_equal(pi_exponent_ratio(A), pi_exponent_ratio(B))
               => ConvPiRatio(A, B) = R0
        /\ ratio_equal(translation_ratio(A), translation_ratio(B))
               => ConvTranslation(A, B) = R0

\* two units of pi exponent 1 and no translation that differ in the ratio:
\* the overload with std::pow(constants::PI, 0) is selected
C24_EqualNonzeroPi ==
    /\ ret.op = "convert" /\ ret.ok /\ ~isSame(A, B)
    /\ pi_exponent_ratio(A) = ratio(1, 1) /\ pi_exponent_ratio(B) = ratio(1, 1)
    /\ ~translationRequired(A, B)
    /\ piRequired(A, B)
    /\ ConvPiRatio(A, B) = R0
    /\ ret.out = VScale(ret.x, ConvRatio(A, B))

\* C26: pow<N> on a linear quantity compiles for every integer N, positive,
\* zero or negative, and returns a quantity of a unit.
C26_PowerTotal ==
    (ret.op = "pow" /\ has_linear_scale(ret.sl)) =>
        /\ ret.ok
        /\ is_convertible_unit(ret.out.unit_type, ret.out.unit_type)

\* the same for N >= 1 alone
C26_PositivePowers ==
    (ret.op = "pow" /\ has_linear_scale(ret.sl)) =>
        IF ret.ok THEN \E N \in 1..MaxPow : ret.y = VInt(N)
        ELSE \E N \in -MaxPow..0 : ret.sr = VInt(N)

\* pow<0> and pow<-1> on a quantity of meters
C26_ZeroPower ==
    /\ ret.op = "pow" /\ has_linear_scale(ret.sl) /\ A = meters
    /\ ~ret.ok
    /\ ret.sr \in {VInt(0), VInt(-1)}

\* C27: every constant is initialised after all the constants its
\* initializer reads (epsilon0, Z0, k_e, mu_B, k_B, F, sigma), so that none
\* is computed from a zero-initialised object, and holds its value from
\* then on: main() reads initialised constants only.
C27_InitializationOrder ==
    /\ \A tu \in TranslationUnits, n \in ConstantNames :
          /\ constants[tu][n] # "from zero"
          /\ constants[tu][n] = "initialized" =>
                 \A r \in Reads(n) : constants[tu][r] = "initialized"
    /\ \A n \in ConstantNames : \E i \in 1..Len(ConstantsTable) : ConstantsTable[i] = n
    /\ ret.op = "constant" => ret.out = "initialized"

\* sigma is initialised in one translation unit while the other one has
\* initialised epsilon0 and not yet Z0
C27_Witness ==
    /\ constants[1]["sigma"] = "initialized"
    /\ constants[2]["epsilon0"] = "initialized"
    /\ constants[2]["Z0"] = "zero"

\* C28: for three units A, B, C of one dimension with equal translations, or
\* with equal pi exponents, convert<B, C>(convert<A, B>(x)) is
\* convert<A, C>(x).
C28_PathIndependence ==
    (/\ ret.op = "via" /\ ret.ok
     /\ \/ /\ ratio_equal(translation_ratio(A), translation_ratio(B))
            /\ ratio_equal(translation_ratio(B), translation_ratio(ret.y))
        \/ /\ ratio_equal(pi_exponent_ratio(A), pi_exponent_ratio(B))
            /\ ratio_equal(pi_exponent_ratio(B), pi_exponent_ratio(ret.y)))
    => ret.out = ret.aux

\* 212 degrees Fahrenheit through Celsius into kelvin: 373.15
C28_Witness ==
    /\ ret.op = "via" /\ ret.ok
    /\ A = fahrenheit /\ B = celsius /\ ret.y = kelvin
    /\ ret.x = VInt(212)
    /\ ret.out = VRat(ratio(37315, 100))
    /\ ret.aux = ret.out

\* three units whose pi exponents and translations both differ
C28_BothDiffer ==
    /\ ret.op = "via" /\ ret.ok
    /\ ret.out # ret.aux

\* C29: for linear quantities a of unit A and b of unit B of one dimension,
\* translations included, a + b converted into B is b + a.
C29_AdditionOrder ==
    (ret.op = "+" /\ ret.ok /\ has_linear_scale(ret.sl) /\ has_linear_scale(ret.sr)) =>
        convert(ret.out.m_value, A, B)
            = operator_plus(unit_t(B, "linear", ret.y), unit_t(A, "linear", ret.x)).m_value

\* the same for two units of equal translations
C29_EqualTranslations ==
    (/\ ret.op = "+" /\ ret.ok /\ has_linear_scale(ret.sl) /\ has_linear_scale(ret.sr)
     /\ ratio_equal(translation_ratio(A), translation_ratio(B)))
    => convert(ret.out.m_value, A, B)
           = operator_plus(unit_t(B, "linear", ret.y), unit_t(A, "linear", ret.x)).m_value

\* 1 degree Celsius + 2 kelvin is -270.15 degrees Celsius, which is 3 kelvin;
\* 2 kelvin + 1 degree Celsius is 276.15 kelvin
C29_CelsiusPlusKelvin ==
    /\ ret.op = "+" /\ ret.ok /\ has_linear_scale(ret.sl) /\ has_linear_scale(ret.sr)
    /\ A = celsius /\ B = kelvin /\ ret.x = VInt(1) /\ ret.y = VInt(2)
    /\ ret.out.m_value = VRat(ratio(-27015, 100))
    /\ convert(ret.out.m_value, A, B) = VInt(3)
    /\ operator_plus(unit_t(B, "linear", ret.y), unit_t(A, "linear", ret.x)).m_value
           = VRat(ratio(27615, 100))

\* 1 meter + 2 feet is 1.6096 meters, 2012/381 feet, which is 2 feet + 1 meter
C29_Witness ==
    /\ ret.op = "+" /\ ret.ok /\ has_linear_scale(ret.sl) /\ has_linear_scale(ret.sr)
    /\ A = meters /\ B = feet /\ ret.x = VInt(1) /\ ret.y = VInt(2)
    /\ ret.out.m_value = VRat(ratio(2012, 1250))
    /\ convert(ret.out.m_value, A, B) = VRat(ratio(2012, 381))
    /\ operator_plus(unit_t(B, "linear", ret.y), unit_t(A, "linear", ret.x)).m_value
           = VRat(ratio(2012, 381))

\* the two operands of a - b are of one dimension and neither is a dB_t next
\* to a non-scalar unit: the general decibel overload
BothOfOneDimension ==
    /\ ret.op = "dB-" /\ ret.ok
    /\ SameDimension(A, B)

\* C30: for decibel quantities a of unit A and b of unit B of one dimension,
\* a - b has the unit unit_multiply<A, inverse<B>> and the linear value
\* a.m_value / convert<B, A>(b.m_value), and that value times the ratio of
\* the result unit is (a.m_value * ratio of A) / (b.m_value * ratio of B),
\* also for different ratios.
C30_DecibelSubtraction ==
    BothOfOneDimension =>
        /\ ret.out.scale = "decibel"
        /\ ret.out.unit_type = unit_multiply(A, inverse(B))
        /\ ret.out.m_value = VDiv(Lhs.m_value, convert(Rhs.m_value, B, A))
        /\ VScale(ret.out.m_value, conversion_ratio(ret.out.unit_type))
               = VDiv(VScale(Lhs.m_value, conversion_ratio(A)),
                      VScale(Rhs.m_value, conversion_ratio(B)))

\* the unit and the stored value alone
C30_UnitAndValue ==
    BothOfOneDimension =>
        /\ ret.out.scale = "decibel"
        /\ ret.out.unit_type = unit_multiply(A, inverse(B))
        /\ ret.out.m_value = VDiv(Lhs.m_value, convert(Rhs.m_value, B, A))

\* the whole of it for two units of the same ratio, pi exponent and
\* translation
C30_SameRatio ==
    (/\ BothOfOneDimension
     /\ ratio_equal(conversion_ratio(A), conversion_ratio(B))
     /\ ratio_equal(pi_exponent_ratio(A), pi_exponent_ratio(B))
     /\ ratio_equal(translation_ratio(A), translation_ratio(B)))
        => C30_DecibelSubtraction

\* 0 dB of feet - 0 dB of meters: the linear value 381/1250 of a unit of ratio
\* 381/1250, where 1 foot / 1 meter is 381/1250
C30_FeetMinusMeters ==
    /\ BothOfOneDimension
    /\ A = feet /\ B = meters /\ ret.x = VInt(0) /\ ret.y = VInt(0)
    /\ Lhs.m_value = VInt(1) /\ Rhs.m_value = VInt(1)
    /\ ret.out.m_value = VRat(ratio(381, 1250))
    /\ ratio_equal(conversion_ratio(ret.out.unit_type), ratio(381, 1250))

====
